---- MODULE Spec2Model ----
(***************************************************************************)
(* dbdump: schema comparison (src/src/comparison.ts) and ordered SQL       *)
(* migration generation (src/unnamed/part_003, the generators/sql module). *)
(*                                                                         *)
(* Every operation of the core is a synchronous pure function, so each     *)
(* specification below draws the inputs of one pipeline in Init and has    *)
(* one action per function call of that pipeline.  JavaScript Maps and     *)
(* Sets iterate in insertion order: they are modelled as sequences without *)
(* repetition.  SQL text is modelled as the sequence of statements it      *)
(* contains, in order of emission.                                         *)
(***************************************************************************)
EXTENDS Integers, Sequences, FiniteSets, TLC

VARIABLES
    pc,          \* position in the pipeline of the specification
    source,      \* SchemaMetadata.tables of the source database (insertion order)
    target,      \* SchemaMetadata.tables of the target database
    tables,      \* working set handed to buildDependencyGraph
    graph,       \* result of buildDependencyGraph
    sortResult,  \* result of topologicalSort
    diff,        \* result of compareSchemas(source, target)
    diffRev,     \* result of compareSchemas(target, source)
    opts,        \* the options of the last call: direction, scope, flags, filters
    files,       \* result of the last generator called
    srcCol,      \* compareColumns: source column
    tgtCol,      \* compareColumns: target column
    colResult,   \* compareColumns: result
    objects,     \* enums, extensions and functions of the source and target snapshots
    filtered,    \* result of applyFilters
    health,      \* result of calculateHealthMetrics
    foundCycles  \* result of findStronglyConnectedComponents

vars == <<pc, source, target, tables, graph, sortResult, diff, diffRev,
          opts, files, srcCol, tgtCol, colResult, objects, filtered, health, foundCycles>>

None == "none"

----------------------------------------------------------------------------
(* Bounds *)

\* foreign keys per table
MaxFKs == 2
\* distinct constraint / index names available to one comparison
MaxNames == 2
\* largest character_maximum_length / numeric_precision / numeric_scale drawn
MaxLen == 2

----------------------------------------------------------------------------
(* Generic helpers on sequences *)

Range(s) == {s[i] : i \in DOMAIN s}

Contains(s, x) == \E i \in DOMAIN s : s[i] = x

\* Set.prototype.add on an insertion-ordered set
SetAdd(s, x) == IF Contains(s, x) THEN s ELSE Append(s, x)

\* position of the first occurrence of x in s, 0 when absent
IndexOf(s, x) ==
    IF Contains(s, x) THEN CHOOSE i \in DOMAIN s : s[i] = x /\ \A j \in 1..(i-1) : s[j] # x
    ELSE 0

\* all sequences over S of length at most n
SeqsUpTo(S, n) == UNION {[1..k -> S] : k \in 0..n}

\* all sequences over S without repetition, of length at most n
DistinctSeqsUpTo(S, n) ==
    {s \in SeqsUpTo(S, n) : \A i, j \in DOMAIN s : i # j => s[i] # s[j]}

----------------------------------------------------------------------------
(* Schema snapshot (types.ts) *)

Schema == "public"

\* `${schema}.${table}`
TableKey(schema, table) == <<schema, table>>

\* const [schema, table] = tableKey.split('.')
SplitKey(key) == [schema |-> key[1], table |-> key[2]]

TableRef(t) == [schema |-> t.table_schema, table |-> t.table_name]

RefKey(ref) == TableKey(ref.schema, ref.table)

InfoKey(t) == TableKey(t.table_schema, t.table_name)

\* Map.prototype.has / Map.prototype.get on SchemaMetadata.tables
HasTable(metadata, key) == \E i \in DOMAIN metadata : InfoKey(metadata[i]) = key

GetTable(metadata, key) == metadata[CHOOSE i \in DOMAIN metadata : InfoKey(metadata[i]) = key]

MkFK(name, refTable) ==
    [constraint_name |-> name, foreign_table_schema |-> Schema, foreign_table_name |-> refTable]

MkTable(name, cols, idxs, fks, cons) ==
    [table_schema |-> Schema, table_name |-> name, columns |-> cols,
     indexes |-> idxs, foreignKeys |-> fks, constraints |-> cons,
     sequences |-> <<>>, triggers |-> <<>>, policies |-> <<>>]

\* the table with the names of its sequences, triggers and policies
WithObjects(t, sequences, triggers, policies) ==
    [t EXCEPT !.sequences = sequences, !.triggers = triggers, !.policies = policies]

\* enums, extensions and functions of a snapshot; an enum is a name and its values
NoObjects == [enums |-> <<>>, extensions |-> <<>>, functions |-> <<>>]

\* SchemaMetadata: the tables Map and the three lists
Metadata(tableList, objs) ==
    [tables |-> tableList, enums |-> objs.enums, extensions |-> objs.extensions,
     functions |-> objs.functions]

----------------------------------------------------------------------------
(* utils.ts and the helpers of comparison.ts *)

\* null of a numeric attribute (lengths, precisions and scales are >= 0)
Null == -1
\* null of a text attribute
NullText == "null"

MkColumn(name, type, nullable, default, len, precision, scale) ==
    [column_name |-> name, data_type |-> type, is_nullable |-> nullable,
     column_default |-> default, character_maximum_length |-> len,
     numeric_precision |-> precision, numeric_scale |-> scale]

MkIndex(name, unique, primary, cols) ==
    [index_name |-> name, is_unique |-> unique, is_primary |-> primary, columns |-> cols]

\* a clause is a sequence of characters; the empty sequence stands for null / ''
MkCheck(name, clause) ==
    [constraint_name |-> name, constraint_type |-> "CHECK", check_clause |-> clause,
     columns |-> <<>>]

MkUnique(name, cols) ==
    [constraint_name |-> name, constraint_type |-> "UNIQUE", check_clause |-> <<>>,
     columns |-> cols]

\* JavaScript truthiness of a number-or-null
Truthy(v) == v # Null /\ v # 0

IsSpace(c) == c = " "

RECURSIVE TrimStart(_)
TrimStart(s) == IF s # <<>> /\ IsSpace(Head(s)) THEN TrimStart(Tail(s)) ELSE s

RECURSIVE TrimEnd(_)
TrimEnd(s) ==
    IF s # <<>> /\ IsSpace(s[Len(s)]) THEN TrimEnd(SubSeq(s, 1, Len(s) - 1)) ELSE s

\* String.prototype.trim
Trim(s) == TrimEnd(TrimStart(s))

\* .replace(/\s+/g, ' ')
RECURSIVE CollapseSpaces(_)
CollapseSpaces(s) ==
    IF s = <<>> THEN <<>>
    ELSE IF IsSpace(Head(s)) THEN <<" ">> \o CollapseSpaces(TrimStart(s))
    ELSE <<Head(s)>> \o CollapseSpaces(Tail(s))

\* .replace(/\(\s+/g, '(')
RECURSIVE DropSpaceAfterOpen(_)
DropSpaceAfterOpen(s) ==
    IF s = <<>> THEN <<>>
    ELSE IF Head(s) = "(" THEN <<"(">> \o DropSpaceAfterOpen(TrimStart(Tail(s)))
    ELSE <<Head(s)>> \o DropSpaceAfterOpen(Tail(s))

\* .replace(/\s+\)/g, ')')
RECURSIVE DropSpaceBeforeClose(_)
DropSpaceBeforeClose(s) ==
    IF s = <<>> THEN <<>>
    ELSE IF IsSpace(Head(s))
         THEN LET rest == TrimStart(s)
              IN IF rest # <<>> /\ Head(rest) = ")"
                 THEN DropSpaceBeforeClose(rest)
                 ELSE SubSeq(s, 1, Len(s) - Len(rest)) \o DropSpaceBeforeClose(rest)
    ELSE <<Head(s)>> \o DropSpaceBeforeClose(Tail(s))

LowerChar(c) == IF c = "X" THEN "x" ELSE IF c = "Y" THEN "y" ELSE c

\* String.prototype.toLowerCase
ToLowerCase(s) == [i \in DOMAIN s |-> LowerChar(s[i])]

\* while (normalized.startsWith('(') && normalized.endsWith(')')) normalized = normalized.slice(1, -1).trim()
RECURSIVE StripOuterParens(_)
StripOuterParens(s) ==
    IF s # <<>> /\ Head(s) = "(" /\ s[Len(s)] = ")"
    THEN StripOuterParens(Trim(SubSeq(s, 2, Len(s) - 1)))
    ELSE s

normalizeCheckClause(clause) ==
    IF clause = <<>> THEN <<>>
    ELSE StripOuterParens(ToLowerCase(DropSpaceBeforeClose(DropSpaceAfterOpen(
             CollapseSpaces(Trim(clause))))))

\* [...arr].sort(): insertion sort on the order of the column names
ColumnOrder == <<"a", "b", "c">>

NameLess(x, y) == IndexOf(ColumnOrder, x) < IndexOf(ColumnOrder, y)

RECURSIVE InsertSorted(_, _)
InsertSorted(s, x) ==
    IF s = <<>> THEN <<x>>
    ELSE IF NameLess(x, Head(s)) THEN <<x>> \o s
    ELSE <<Head(s)>> \o InsertSorted(Tail(s), x)

RECURSIVE SortColumns(_)
SortColumns(s) == IF s = <<>> THEN <<>> ELSE InsertSorted(SortColumns(Tail(s)), Head(s))

\* a plausible slip: the two arrays are compared position by position
areColumnArraysEqualOrdered(arr1, arr2) == arr1 = arr2

areColumnArraysEqual(arr1, arr2) ==
    IF Len(arr1) # Len(arr2) THEN FALSE
    ELSE SortColumns(arr1) = SortColumns(arr2)

\* utils.findEquivalentUniqueIndex: a unique index on the same column set
findEquivalentUniqueIndex(columns, indexes) ==
    \E i \in DOMAIN indexes :
        indexes[i].is_unique /\ areColumnArraysEqual(indexes[i].columns, columns)

\* utils.findEquivalentUniqueConstraint: a UNIQUE constraint on the same column set
findEquivalentUniqueConstraint(columns, constraints) ==
    \E i \in DOMAIN constraints :
        /\ constraints[i].constraint_type = "UNIQUE"
        /\ areColumnArraysEqual(constraints[i].columns, columns)

----------------------------------------------------------------------------
(* comparison.ts: compareColumns *)

\* a plausible slip: the direction of the nullability rule is exchanged
NullabilityCriticalReversed(src, tgt) == src.is_nullable = "NO" /\ tgt.is_nullable = "YES"

\* lines 20-23: making a column NOT NULL is breaking
NullabilityCritical(src, tgt) == src.is_nullable = "YES" /\ tgt.is_nullable = "NO"

\* lines 41-47: reducing the max length is breaking
LengthCritical(src, tgt) ==
    /\ Truthy(src.character_maximum_length)
    /\ Truthy(tgt.character_maximum_length)
    /\ src.character_maximum_length > tgt.character_maximum_length

\* the result null is the record with isNull set
compareColumns(src, tgt) ==
    LET differences ==
            (IF src.data_type # tgt.data_type THEN <<"type">> ELSE <<>>)
            \o (IF src.is_nullable # tgt.is_nullable THEN <<"nullable">> ELSE <<>>)
            \o (IF src.column_default # tgt.column_default THEN <<"default">> ELSE <<>>)
            \o (IF src.character_maximum_length # tgt.character_maximum_length
                THEN <<"max_length">> ELSE <<>>)
            \o (IF src.numeric_precision # tgt.numeric_precision THEN <<"precision">> ELSE <<>>)
            \o (IF src.numeric_scale # tgt.numeric_scale THEN <<"scale">> ELSE <<>>)
        isCritical ==
            \/ src.data_type # tgt.data_type
            \/ src.is_nullable # tgt.is_nullable /\ NullabilityCritical(src, tgt)
            \/ /\ src.character_maximum_length # tgt.character_maximum_length
               /\ LengthCritical(src, tgt)
    IN IF Len(differences) > 0
       THEN [isNull |-> FALSE, differences |-> differences, isCritical |-> isCritical]
       ELSE [isNull |-> TRUE, differences |-> <<>>, isCritical |-> FALSE]

----------------------------------------------------------------------------
(* comparison.ts: compareSchemas.  The Maps built from the arrays of a table *)
(* are keyed by names that are unique within the table, so each Map is the   *)
(* array itself, in the same order.                                          *)

HasColumn(cols, name) == \E i \in DOMAIN cols : cols[i].column_name = name

GetColumn(cols, name) == cols[CHOOSE i \in DOMAIN cols : cols[i].column_name = name]

HasIndex(idxs, name) == \E i \in DOMAIN idxs : idxs[i].index_name = name

HasConstraint(cons, name) == \E i \in DOMAIN cons : cons[i].constraint_name = name

\* a plausible slip: the target list is filled from the source Map
TablesOnlyInTargetFromSource(src, tgt) ==
    LET only == SelectSeq(src, LAMBDA t : ~HasTable(tgt, InfoKey(t)))
    IN [i \in DOMAIN only |-> TableRef(only[i])]

\* lines 84-92
TablesOnlyInSource(src, tgt) ==
    LET only == SelectSeq(src, LAMBDA t : ~HasTable(tgt, InfoKey(t)))
    IN [i \in DOMAIN only |-> TableRef(only[i])]

\* lines 94-102
TablesOnlyInTarget(src, tgt) ==
    LET only == SelectSeq(tgt, LAMBDA t : ~HasTable(src, InfoKey(t)))
    IN [i \in DOMAIN only |-> TableRef(only[i])]

\* lines 150-162: columns of `mine` whose name `theirs` lacks
ColumnsOnlyIn(mine, theirs) ==
    SelectSeq(mine, LAMBDA col : ~HasColumn(theirs, col.column_name))

\* lines 164-180
ColumnsWithDifferences(srcCols, tgtCols) ==
    LET both == SelectSeq(srcCols, LAMBDA col :
                    /\ HasColumn(tgtCols, col.column_name)
                    /\ ~compareColumns(col, GetColumn(tgtCols, col.column_name)).isNull)
    IN [i \in DOMAIN both |->
           LET targetCol == GetColumn(tgtCols, both[i].column_name)
               result == compareColumns(both[i], targetCol)
           IN [column_name |-> both[i].column_name, source |-> both[i], target |-> targetCol,
               differences |-> result.differences, isCritical |-> result.isCritical]]

\* a plausible slip: the lookup by name is left out, only the UNIQUE match excuses an index
IndexesOnlyInUnnamed(mine, theirs, theirConstraints) ==
    SelectSeq(mine, LAMBDA idx :
        IF idx.is_unique /\ ~idx.is_primary
        THEN ~findEquivalentUniqueConstraint(idx.columns, theirConstraints)
        ELSE TRUE)

\* lines 190-202 and 204-216: indexes of `mine` missing by name in `theirs`, except a
\* unique non-primary index matched by a UNIQUE constraint of the other table
IndexesOnlyIn(mine, theirs, theirConstraints) ==
    SelectSeq(mine, LAMBDA idx :
        /\ ~HasIndex(theirs, idx.index_name)
        /\ IF idx.is_unique /\ ~idx.is_primary
           THEN ~findEquivalentUniqueConstraint(idx.columns, theirConstraints)
           ELSE TRUE)

\* lines 226-236
ForeignKeysOnlyIn(mine, theirs) ==
    SelectSeq(mine, LAMBDA fk :
        ~\E i \in DOMAIN theirs : theirs[i].constraint_name = fk.constraint_name)

\* a plausible slip: the raw clause texts are compared
EquivalentCheckRaw(c, theirs) ==
    \E i \in DOMAIN theirs :
        /\ theirs[i].constraint_type = "CHECK" /\ theirs[i].check_clause # <<>>
        /\ c.check_clause = theirs[i].check_clause

\* lines 271-282 and 329-340
EquivalentCheck(c, theirs) ==
    \E i \in DOMAIN theirs :
        /\ theirs[i].constraint_type = "CHECK" /\ theirs[i].check_clause # <<>>
        /\ normalizeCheckClause(c.check_clause) = normalizeCheckClause(theirs[i].check_clause)

\* lines 290-310 and 348-368
EquivalentUnique(c, theirs, theirIndexes) ==
    \/ \E i \in DOMAIN theirs :
          /\ theirs[i].constraint_type = "UNIQUE" /\ Len(theirs[i].columns) > 0
          /\ SortColumns(c.columns) = SortColumns(theirs[i].columns)
    \/ findEquivalentUniqueIndex(c.columns, theirIndexes)

\* lines 264-320 and 322-378: constraints of `mine` the other table lacks
ConstraintsOnlyIn(mine, theirs, theirIndexes) ==
    SelectSeq(mine, LAMBDA c :
        /\ ~HasConstraint(theirs, c.constraint_name)
        /\ IF c.constraint_type = "CHECK" /\ c.check_clause # <<>>
           THEN ~EquivalentCheck(c, theirs)
           ELSE IF c.constraint_type = "UNIQUE" /\ Len(c.columns) > 0
           THEN ~EquivalentUnique(c, theirs, theirIndexes)
           ELSE TRUE)

\* lines 128-140 and 142-378
CompareTable(sourceTable, targetTable) ==
    [table_name |-> sourceTable.table_name,
     table_schema |-> sourceTable.table_schema,
     columnsOnlyInSource |-> ColumnsOnlyIn(sourceTable.columns, targetTable.columns),
     columnsOnlyInTarget |-> ColumnsOnlyIn(targetTable.columns, sourceTable.columns),
     columnsWithDifferences |-> ColumnsWithDifferences(sourceTable.columns, targetTable.columns),
     indexesOnlyInSource |->
         IndexesOnlyIn(sourceTable.indexes, targetTable.indexes, targetTable.constraints),
     indexesOnlyInTarget |->
         IndexesOnlyIn(targetTable.indexes, sourceTable.indexes, sourceTable.constraints),
     foreignKeysOnlyInSource |-> ForeignKeysOnlyIn(sourceTable.foreignKeys, targetTable.foreignKeys),
     foreignKeysOnlyInTarget |-> ForeignKeysOnlyIn(targetTable.foreignKeys, sourceTable.foreignKeys),
     constraintsOnlyInSource |->
         ConstraintsOnlyIn(sourceTable.constraints, targetTable.constraints, targetTable.indexes),
     constraintsOnlyInTarget |->
         ConstraintsOnlyIn(targetTable.constraints, sourceTable.constraints, sourceTable.indexes)]

\* a plausible slip: only the column lists are looked at
HasDifferencesInColumns(td) ==
    \/ Len(td.columnsOnlyInSource) > 0 \/ Len(td.columnsOnlyInTarget) > 0
    \/ Len(td.columnsWithDifferences) > 0

\* lines 381-391
HasDifferences(td) ==
    \/ Len(td.columnsOnlyInSource) > 0 \/ Len(td.columnsOnlyInTarget) > 0
    \/ Len(td.columnsWithDifferences) > 0
    \/ Len(td.indexesOnlyInSource) > 0 \/ Len(td.indexesOnlyInTarget) > 0
    \/ Len(td.foreignKeysOnlyInSource) > 0 \/ Len(td.foreignKeysOnlyInTarget) > 0
    \/ Len(td.constraintsOnlyInSource) > 0 \/ Len(td.constraintsOnlyInTarget) > 0

\* lines 115-394
TablesInBoth(src, tgt) ==
    LET common == SelectSeq(src, LAMBDA t :
                      /\ HasTable(tgt, InfoKey(t))
                      /\ HasDifferences(CompareTable(t, GetTable(tgt, InfoKey(t)))))
    IN [i \in DOMAIN common |-> CompareTable(common[i], GetTable(tgt, InfoKey(common[i])))]

compareSchemas(sourceMetadata, targetMetadata) ==
    [tablesOnlyInSource |-> TablesOnlyInSource(sourceMetadata, targetMetadata),
     tablesOnlyInTarget |-> TablesOnlyInTarget(sourceMetadata, targetMetadata),
     tablesInBoth |-> TablesInBoth(sourceMetadata, targetMetadata)]

----------------------------------------------------------------------------
(* Dependency graph and topological sort (generators/sql) *)

EmptyGraph == [keys |-> <<>>, deps |-> <<>>]

GraphHas(g, key) == Contains(g.keys, key)

GraphGet(g, key) == g.deps[IndexOf(g.keys, key)]

\* a plausible slip: the test for a self-reference is left out
RECURSIVE AddEdgesWithSelf(_, _, _, _)
AddEdgesWithSelf(deps, fks, tableKey, tableSet) ==
    IF fks = <<>> THEN deps
    ELSE LET fk == Head(fks)
             referencedTable == TableKey(fk.foreign_table_schema, fk.foreign_table_name)
         IN AddEdgesWithSelf(IF referencedTable \in tableSet
                                THEN SetAdd(deps, referencedTable) ELSE deps,
                             Tail(fks), tableKey, tableSet)

\* for (const fk of tableInfo.foreignKeys) ... graph.get(tableKey)!.add(referencedTable)
RECURSIVE AddEdges(_, _, _, _)
AddEdges(deps, fks, tableKey, tableSet) ==
    IF fks = <<>> THEN deps
    ELSE LET fk == Head(fks)
             referencedTable == TableKey(fk.foreign_table_schema, fk.foreign_table_name)
         IN AddEdges(IF referencedTable \in tableSet /\ referencedTable # tableKey
                        THEN SetAdd(deps, referencedTable) ELSE deps,
                     Tail(fks), tableKey, tableSet)

RECURSIVE BuildLoop(_, _, _, _)
BuildLoop(g, refs, metadata, tableSet) ==
    IF refs = <<>> THEN g
    ELSE LET tableKey == RefKey(Head(refs))
         IN IF ~HasTable(metadata, tableKey) THEN BuildLoop(g, Tail(refs), metadata, tableSet)
            ELSE LET g1 == IF GraphHas(g, tableKey) THEN g
                           ELSE [keys |-> Append(g.keys, tableKey), deps |-> Append(g.deps, <<>>)]
                     i == IndexOf(g1.keys, tableKey)
                     g2 == [g1 EXCEPT !.deps[i] =
                               AddEdges(@, GetTable(metadata, tableKey).foreignKeys, tableKey, tableSet)]
                 IN BuildLoop(g2, Tail(refs), metadata, tableSet)

buildDependencyGraph(refs, metadata) ==
    BuildLoop(EmptyGraph, refs, metadata, {RefKey(refs[i]) : i \in DOMAIN refs})

\* inDegree: an insertion-ordered Map, keys in order with their counts
DegHas(m, key) == Contains(m.keys, key)

DegGet(m, key) == m.val[IndexOf(m.keys, key)]

DegSet(m, key, v) ==
    IF DegHas(m, key) THEN [m EXCEPT !.val[IndexOf(m.keys, key)] = v]
    ELSE [keys |-> Append(m.keys, key), val |-> Append(m.val, v)]

\* for (const dep of deps) { if (!inDegree.has(dep)) inDegree.set(dep, 0); inDegree.set(dep, inDegree.get(dep) + 1) }
RECURSIVE CountDeps(_, _)
CountDeps(m, deps) ==
    IF deps = <<>> THEN m
    ELSE LET dep == Head(deps)
             m0 == IF DegHas(m, dep) THEN m ELSE DegSet(m, dep, 0)
         IN CountDeps(DegSet(m0, dep, DegGet(m0, dep) + 1), Tail(deps))

RECURSIVE CountAll(_, _)
CountAll(m, depLists) ==
    IF depLists = <<>> THEN m ELSE CountAll(CountDeps(m, Head(depLists)), Tail(depLists))

\* lines 108-125: every node starts at 0, then one increment per edge node -> dep, on dep
InDegrees(g) ==
    CountAll([keys |-> g.keys, val |-> [i \in DOMAIN g.keys |-> 0]], g.deps)

\* lines 127-132
RECURSIVE ZeroDegree(_, _)
ZeroDegree(m, i) ==
    IF i > Len(m.keys) THEN <<>>
    ELSE (IF m.val[i] = 0 THEN <<m.keys[i]>> ELSE <<>>) \o ZeroDegree(m, i + 1)

\* a plausible slip: a neighbor is queued one decrement early
RECURSIVE RelaxEarly(_, _, _)
RelaxEarly(m, queue, nbrs) ==
    IF nbrs = <<>> THEN [inDegree |-> m, queue |-> queue]
    ELSE LET neighbor == Head(nbrs)
             newDegree == DegGet(m, neighbor) - 1
         IN RelaxEarly(DegSet(m, neighbor, newDegree),
                       IF newDegree \in {0, 1} THEN Append(queue, neighbor) ELSE queue,
                       Tail(nbrs))

\* lines 140-146: the inner loop over graph.get(node) || []
RECURSIVE Relax(_, _, _)
Relax(m, queue, nbrs) ==
    IF nbrs = <<>> THEN [inDegree |-> m, queue |-> queue]
    ELSE LET neighbor == Head(nbrs)
             newDegree == DegGet(m, neighbor) - 1
         IN Relax(DegSet(m, neighbor, newDegree),
                  IF newDegree = 0 THEN Append(queue, neighbor) ELSE queue,
                  Tail(nbrs))

\* lines 135-147
RECURSIVE ProcessQueue(_, _, _, _)
ProcessQueue(g, m, queue, sorted) ==
    IF queue = <<>> THEN sorted
    ELSE LET node == Head(queue)
             r == Relax(m, Tail(queue), IF GraphHas(g, node) THEN GraphGet(g, node) ELSE <<>>)
         IN ProcessQueue(g, r.inDegree, r.queue, Append(sorted, node))

\* a plausible slip: every node is reported unsortable as soon as a cycle exists
UnsortedAll(g, sorted) == g.keys

\* lines 155-159: graph keys that were not sorted
Unsorted(g, sorted) == SelectSeq(g.keys, LAMBDA node : ~Contains(sorted, node))

topologicalSort(g) ==
    LET inDegree == InDegrees(g)
        sorted == ProcessQueue(g, inDegree, ZeroDegree(inDegree, 1), <<>>)
        hasCycles == Len(sorted) # Len(g.keys)
    IN [sorted |-> sorted, hasCycles |-> hasCycles,
        remaining |-> IF hasCycles THEN Unsorted(g, sorted) ELSE <<>>]

\* deps.has(b) for deps = graph.get(a) || new Set()
Edge(g, a, b) == GraphHas(g, a) /\ Contains(GraphGet(g, a), b)

\* lines 177-193: dfs(node, component) over the shared visited / inStack sets
RECURSIVE Dfs(_, _, _)
RECURSIVE DfsNeighbors(_, _, _)
Dfs(g, node, st) ==
    LET entered == [visited |-> st.visited \cup {node}, inStack |-> st.inStack \cup {node},
                    component |-> Append(st.component, node)]
        after == DfsNeighbors(g, IF GraphHas(g, node) THEN GraphGet(g, node) ELSE <<>>, entered)
    IN [after EXCEPT !.inStack = @ \ {node}]

DfsNeighbors(g, nbrs, st) ==
    IF nbrs = <<>> THEN st
    ELSE LET neighbor == Head(nbrs)
             st1 == IF neighbor \notin st.visited THEN Dfs(g, neighbor, st)
                    ELSE IF neighbor \in st.inStack
                    THEN [st EXCEPT !.component = Append(@, neighbor)]
                    ELSE st
         IN DfsNeighbors(g, Tail(nbrs), st1)

\* [...new Set(component)]
RECURSIVE Dedup(_)
Dedup(s) == IF s = <<>> THEN <<>> ELSE SetAdd(Dedup(SubSeq(s, 1, Len(s) - 1)), s[Len(s)])

\* lines 203-206
HasCircular(g, component) ==
    \E i \in DOMAIN component : \E j \in DOMAIN component :
        component[j] # component[i] /\ Edge(g, component[i], component[j])

\* lines 195-220
RECURSIVE ComponentsLoop(_, _, _, _)
ComponentsLoop(g, nodes, visited, components) ==
    IF nodes = <<>> THEN components
    ELSE IF Head(nodes) \in visited THEN ComponentsLoop(g, Tail(nodes), visited, components)
    ELSE LET st == Dfs(g, Head(nodes), [visited |-> visited, inStack |-> {}, component |-> <<>>])
             component == st.component
             found == IF Len(component) > 1
                      THEN (IF HasCircular(g, component) THEN <<Dedup(component)>> ELSE <<>>)
                      ELSE IF Edge(g, component[1], component[1]) THEN <<component>> ELSE <<>>
         IN ComponentsLoop(g, Tail(nodes), st.visited, components \o found)

findStronglyConnectedComponents(g) == ComponentsLoop(g, g.keys, {}, <<>>)

----------------------------------------------------------------------------
(* SQL generation (generators/sql).  A stage text is the sequence of its    *)
(* statements; the comments that carry information are statements of op     *)
(* COMMENT.  The snapshots of this model hold tables, columns, indexes,     *)
(* foreign keys and constraints in schema public; sequences, triggers and   *)
(* policies are held by name, enums by name and values, extensions and      *)
(* functions by name.                                                       *)

NoKey == <<"", "">>

Statement(op, table, name, section, columns, ref, deferrable) ==
    [op |-> op, table |-> table, name |-> name, section |-> section,
     columns |-> columns, ref |-> ref, deferrable |-> deferrable]

Comment(text) == Statement("COMMENT", NoKey, text, "", <<>>, NoKey, FALSE)

\* CREATE TABLE IF NOT EXISTS "schema"."table" ( column definitions )
CreateTable(ref, info, section) ==
    Statement("CREATE TABLE", RefKey(ref), ref.table, section,
              [i \in DOMAIN info.columns |-> info.columns[i].column_name], NoKey, FALSE)

\* ALTER TABLE ... ADD CONSTRAINT ... FOREIGN KEY ... REFERENCES ... [DEFERRABLE INITIALLY DEFERRED]
AddForeignKey(ref, fk, section, deferrable) ==
    Statement("ADD FOREIGN KEY", RefKey(ref), fk.constraint_name, section, <<>>,
              TableKey(fk.foreign_table_schema, fk.foreign_table_name), deferrable)

RECURSIVE Flatten(_)
Flatten(ss) == IF ss = <<>> THEN <<>> ELSE Head(ss) \o Flatten(Tail(ss))

\* lines 254-281: phase 1, one CREATE TABLE per circular table found in the snapshot
CircularPhase1(circularTables, metadata) ==
    LET found == SelectSeq(circularTables, LAMBDA tableKey : HasTable(metadata, tableKey))
    IN [i \in DOMAIN found |->
           CreateTable(SplitKey(found[i]), GetTable(metadata, found[i]), "phase1")]

\* lines 291-306: phase 2, every foreign key of every circular table, deferrable
CircularPhase2(circularTables, metadata) ==
    LET found == SelectSeq(circularTables, LAMBDA tableKey : HasTable(metadata, tableKey))
    IN Flatten([i \in DOMAIN found |->
           LET fks == GetTable(metadata, found[i]).foreignKeys
           IN [j \in DOMAIN fks |-> AddForeignKey(SplitKey(found[i]), fks[j], "phase2", TRUE)]])

\* a plausible slip: the foreign keys are added before the tables are created
generateCircularDependencySQLKeysFirst(circularTables, metadata, cycles) ==
    <<Comment("CIRCULAR DEPENDENCY HANDLING")>>
    \o [i \in DOMAIN cycles |-> Comment("Cycle")]
    \o <<Comment("PHASE 2")>> \o CircularPhase2(circularTables, metadata)
    \o <<Comment("PHASE 1")>> \o CircularPhase1(circularTables, metadata)

\* the cycles listed in the warning (lines 239-243) are kept as the number of cycles
generateCircularDependencySQL(circularTables, metadata, cycles) ==
    <<Comment("CIRCULAR DEPENDENCY HANDLING")>>
    \o [i \in DOMAIN cycles |-> Comment("Cycle")]
    \o <<Comment("PHASE 1")>> \o CircularPhase1(circularTables, metadata)
    \o <<Comment("PHASE 2")>> \o CircularPhase2(circularTables, metadata)

KeysToRefs(keys) == [i \in DOMAIN keys |-> SplitKey(keys[i])]

\* a plausible slip: without the special handling the unsortable tables are left out
CreationPlanSortedOnly(d, sourceMetadata, sortByDependencies, handleCircularDeps) ==
    IF sortByDependencies /\ Len(d.tablesOnlyInSource) > 0
    THEN LET g == buildDependencyGraph(d.tablesOnlyInSource, sourceMetadata)
             r == topologicalSort(g)
         IN IF r.hasCycles /\ handleCircularDeps
            THEN [tablesToCreate |->
                      KeysToRefs(SelectSeq(r.sorted, LAMBDA k : ~Contains(r.remaining, k))),
                  circularDepSQL |-> generateCircularDependencySQL(r.remaining, sourceMetadata,
                                         findStronglyConnectedComponents(g)),
                  notes |-> <<>>]
            ELSE [tablesToCreate |-> KeysToRefs(r.sorted), circularDepSQL |-> <<>>,
                  notes |-> <<>>]
    ELSE [tablesToCreate |-> d.tablesOnlyInSource, circularDepSQL |-> <<>>, notes |-> <<>>]

\* lines 521-600: the order of creation and the circular-dependency text
CreationPlan(d, sourceMetadata, sortByDependencies, handleCircularDeps) ==
    IF sortByDependencies /\ Len(d.tablesOnlyInSource) > 0
    THEN LET g == buildDependencyGraph(d.tablesOnlyInSource, sourceMetadata)
             r == topologicalSort(g)
             ordered == IF Len(r.sorted) > 0 THEN <<Comment("Tables ordered by foreign key dependencies")>>
                        ELSE <<>>
         IN IF r.hasCycles /\ handleCircularDeps
            THEN [tablesToCreate |->
                      KeysToRefs(SelectSeq(r.sorted, LAMBDA k : ~Contains(r.remaining, k))),
                  circularDepSQL |-> generateCircularDependencySQL(r.remaining, sourceMetadata,
                                         findStronglyConnectedComponents(g)),
                  notes |-> ordered]
            ELSE IF r.hasCycles
            THEN [tablesToCreate |-> KeysToRefs(r.sorted) \o KeysToRefs(r.remaining),
                  circularDepSQL |-> <<>>,
                  notes |-> <<Comment("WARNING: Circular dependencies detected")>> \o ordered]
            ELSE [tablesToCreate |-> KeysToRefs(r.sorted), circularDepSQL |-> <<>>,
                  notes |-> ordered]
    ELSE [tablesToCreate |-> d.tablesOnlyInSource, circularDepSQL |-> <<>>, notes |-> <<>>]

\* lines 602-631
CreateTables(tablesToCreate, metadata) ==
    LET found == SelectSeq(tablesToCreate, LAMBDA ref : HasTable(metadata, RefKey(ref)))
    IN [i \in DOMAIN found |-> CreateTable(found[i], GetTable(metadata, RefKey(found[i])), "main")]

\* lines 633-647
AddColumns(d, isSourceToTarget) ==
    Flatten([i \in DOMAIN d.tablesInBoth |->
        LET table == d.tablesInBoth[i]
            columnsToAdd == IF isSourceToTarget THEN table.columnsOnlyInSource
                            ELSE table.columnsOnlyInTarget
        IN [j \in DOMAIN columnsToAdd |->
               Statement("ADD COLUMN", TableKey(table.table_schema, table.table_name),
                         columnsToAdd[j].column_name, "existing", <<>>, NoKey, FALSE)]])

generateTablesSQL(d, sourceMetadata, sortByDependencies, handleCircularDeps, isSourceToTarget) ==
    LET plan == CreationPlan(d, sourceMetadata, sortByDependencies, handleCircularDeps)
        created == CreateTables(plan.tablesToCreate, sourceMetadata)
        added == AddColumns(d, isSourceToTarget)
        hasTables == Len(created) > 0 \/ Len(added) > 0 \/ Len(plan.circularDepSQL) > 0
    IN IF hasTables
       THEN <<Comment("TABLES")>> \o plan.notes \o created \o added \o plan.circularDepSQL
       ELSE <<Comment("No tables to create or modify")>>

\* lines 693-700 and 709-716: ADD PRIMARY KEY or CREATE [UNIQUE] INDEX
IndexStatement(tableKey, idx, section) ==
    Statement(IF idx.is_primary THEN "ADD PRIMARY KEY"
              ELSE IF idx.is_unique THEN "CREATE UNIQUE INDEX" ELSE "CREATE INDEX",
              tableKey, idx.index_name, section, idx.columns, NoKey, FALSE)

\* lines 673-722
generateIndexesSQL(d, sourceMetadata) ==
    LET new == SelectSeq(d.tablesOnlyInSource, LAMBDA ref : HasTable(sourceMetadata, RefKey(ref)))
        forNew == Flatten([i \in DOMAIN new |->
                      LET idxs == GetTable(sourceMetadata, RefKey(new[i])).indexes
                      IN [j \in DOMAIN idxs |-> IndexStatement(RefKey(new[i]), idxs[j], "main")]])
        forExisting == Flatten([i \in DOMAIN d.tablesInBoth |->
                      LET table == d.tablesInBoth[i]
                      IN [j \in DOMAIN table.indexesOnlyInSource |->
                             IndexStatement(TableKey(table.table_schema, table.table_name),
                                            table.indexesOnlyInSource[j], "existing")]])
    IN IF Len(forNew) > 0 \/ Len(forExisting) > 0
       THEN <<Comment("INDEXES")>> \o forNew \o forExisting
       ELSE <<Comment("No indexes to create")>>

\* a plausible slip: a UNIQUE constraint is emitted whatever the indexes
ConstraintStatementsAll(tableKey, constraints, indexes, section) ==
    LET emitted == SelectSeq(constraints, LAMBDA c :
                       \/ c.constraint_type = "CHECK" /\ c.check_clause # <<>>
                       \/ c.constraint_type = "UNIQUE" /\ Len(c.columns) > 0)
    IN [i \in DOMAIN emitted |->
           Statement(IF emitted[i].constraint_type = "CHECK" THEN "ADD CHECK" ELSE "ADD UNIQUE",
                     tableKey, emitted[i].constraint_name, section, emitted[i].columns,
                     NoKey, FALSE)]

\* lines 762-781 and 806-827: CHECK with a clause, UNIQUE with columns unless a unique
\* index of the same name exists in the table of the emitting snapshot
ConstraintStatements(tableKey, constraints, indexes, section) ==
    LET emitted == SelectSeq(constraints, LAMBDA c :
                       \/ c.constraint_type = "CHECK" /\ c.check_clause # <<>>
                       \/ /\ ~(c.constraint_type = "CHECK" /\ c.check_clause # <<>>)
                          /\ c.constraint_type = "UNIQUE" /\ Len(c.columns) > 0
                          /\ ~\E i \in DOMAIN indexes :
                                 indexes[i].is_unique /\ indexes[i].index_name = c.constraint_name)
    IN [i \in DOMAIN emitted |->
           Statement(IF emitted[i].constraint_type = "CHECK" THEN "ADD CHECK" ELSE "ADD UNIQUE",
                     tableKey, emitted[i].constraint_name, section, emitted[i].columns,
                     NoKey, FALSE)]

\* lines 725-832
generateConstraintsForeignKeysSQL(d, sourceMetadata, isSourceToTarget) ==
    LET new == SelectSeq(d.tablesOnlyInSource, LAMBDA ref :
                   /\ HasTable(sourceMetadata, RefKey(ref))
                   /\ \/ Len(GetTable(sourceMetadata, RefKey(ref)).foreignKeys) > 0
                      \/ Len(GetTable(sourceMetadata, RefKey(ref)).constraints) > 0)
        forNew == Flatten([i \in DOMAIN new |->
                      LET info == GetTable(sourceMetadata, RefKey(new[i]))
                      IN [j \in DOMAIN info.foreignKeys |->
                             AddForeignKey(new[i], info.foreignKeys[j], "main", FALSE)]
                         \o ConstraintStatements(RefKey(new[i]), info.constraints, info.indexes,
                                                 "main")])
        FksToAdd(table) == IF isSourceToTarget THEN table.foreignKeysOnlyInSource
                           ELSE table.foreignKeysOnlyInTarget
        ConstraintsToAdd(table) == IF isSourceToTarget THEN table.constraintsOnlyInSource
                                   ELSE table.constraintsOnlyInTarget
        existing == SelectSeq(d.tablesInBoth, LAMBDA table :
                        Len(FksToAdd(table)) > 0 \/ Len(ConstraintsToAdd(table)) > 0)
        forExisting == Flatten([i \in DOMAIN existing |->
                      LET table == existing[i]
                          tableKey == TableKey(table.table_schema, table.table_name)
                          ref == [schema |-> table.table_schema, table |-> table.table_name]
                      IN [j \in DOMAIN FksToAdd(table) |->
                             AddForeignKey(ref, FksToAdd(table)[j], "existing", FALSE)]
                         \o ConstraintStatements(tableKey, ConstraintsToAdd(table),
                                IF HasTable(sourceMetadata, tableKey)
                                THEN GetTable(sourceMetadata, tableKey).indexes ELSE <<>>,
                                "existing")])
    IN IF Len(new) > 0 \/ Len(existing) > 0
       THEN <<Comment("CONSTRAINTS AND FOREIGN KEYS")>> \o forNew \o forExisting
       ELSE <<Comment("No constraints or foreign keys to create")>>

\* objects of `mine` whose name no object of `theirs` carries
MissingByName(mine, theirs) ==
    SelectSeq(mine, LAMBDA x : ~\E i \in DOMAIN theirs : theirs[i].name = x.name)

\* lines 401-430: an enum without values is skipped with a warning
EnumStatement(enumInfo) ==
    IF Len(enumInfo.values) = 0 THEN Comment("WARNING: ENUM type has no values, skipping")
    ELSE Statement("CREATE TYPE", NoKey, enumInfo.name, "", enumInfo.values, NoKey, FALSE)

\* lines 349-438: the banner, then the extensions and the enums the target lacks; every
\* table, enum and function is in schema public, so no CREATE SCHEMA is emitted; the text
\* is never empty, so the closing "No extensions or enums to create" is never returned
generateExtensionsEnumsSQL(sourceMetadata, targetMetadata) ==
    <<Comment("EXTENSIONS AND ENUMS")>>
    \o ( IF Len(MissingByName(sourceMetadata.extensions, targetMetadata.extensions)) > 0
         THEN <<Comment("Extensions")>>
              \o [i \in DOMAIN MissingByName(sourceMetadata.extensions, targetMetadata.extensions) |->
                    Statement("CREATE EXTENSION", NoKey,
                        MissingByName(sourceMetadata.extensions, targetMetadata.extensions)[i].name,
                        "", <<>>, NoKey, FALSE)]
         ELSE <<>> )
    \o ( IF Len(MissingByName(sourceMetadata.enums, targetMetadata.enums)) > 0
         THEN <<Comment("ENUM Types")>>
              \o [i \in DOMAIN MissingByName(sourceMetadata.enums, targetMetadata.enums) |->
                    EnumStatement(MissingByName(sourceMetadata.enums, targetMetadata.enums)[i])]
         ELSE <<>> )

\* lines 441-468: the banner, then the definition of every function the target lacks
generateFunctionsSQL(sourceMetadata, targetMetadata) ==
    <<Comment("FUNCTIONS")>>
    \o ( IF Len(MissingByName(sourceMetadata.functions, targetMetadata.functions)) > 0
         THEN <<Comment("Functions")>>
              \o [i \in DOMAIN MissingByName(sourceMetadata.functions, targetMetadata.functions) |->
                    Statement("CREATE FUNCTION", NoKey,
                        MissingByName(sourceMetadata.functions, targetMetadata.functions)[i].name,
                        "", <<>>, NoKey, FALSE)]
         ELSE <<>> )

\* one statement per named object of a table, after a comment naming the table
ObjectStatements(op, tableKey, names, section, lead) ==
    lead \o [j \in DOMAIN names |-> Statement(op, tableKey, names[j], section, <<>>, NoKey, FALSE)]

\* lines 482-500: the new tables found in the snapshot that own a sequence
SequenceTables(d, schemaMap) ==
    SelectSeq(d.tablesOnlyInSource, LAMBDA ref :
        HasTable(schemaMap, RefKey(ref)) /\ Len(GetTable(schemaMap, RefKey(ref)).sequences) > 0)

\* lines 471-503; sourceMetadata stands for sourceMetadata.tables, the only part read
generateSequencesSQL(d, sourceMetadata) ==
    IF Len(SequenceTables(d, sourceMetadata)) > 0
    THEN <<Comment("SEQUENCES")>>
         \o Flatten([i \in DOMAIN SequenceTables(d, sourceMetadata) |->
               ObjectStatements("CREATE SEQUENCE", RefKey(SequenceTables(d, sourceMetadata)[i]),
                   GetTable(sourceMetadata, RefKey(SequenceTables(d, sourceMetadata)[i])).sequences,
                   "main", <<Comment("Sequences for table")>>)])
    ELSE <<Comment("No sequences to create")>>

\* names of `mine` absent from `theirs`
MissingNames(mine, theirs) == SelectSeq(mine, LAMBDA n : ~Contains(theirs, n))

\* lines 848-863 and 905-935: the new tables found in the snapshot that own such objects
OwnerTables(d, schemaMap, Objects(_)) ==
    SelectSeq(d.tablesOnlyInSource, LAMBDA ref :
        HasTable(schemaMap, RefKey(ref)) /\ Len(Objects(GetTable(schemaMap, RefKey(ref)))) > 0)

\* lines 865-886 and 937-967: the differing tables found in both snapshots whose source
\* table owns an object that the target table lacks by name
LackingTables(d, sourceTables, targetTables, Objects(_)) ==
    SelectSeq(d.tablesInBoth, LAMBDA table :
        /\ HasTable(sourceTables, TableKey(table.table_schema, table.table_name))
        /\ HasTable(targetTables, TableKey(table.table_schema, table.table_name))
        /\ Len(MissingNames(
               Objects(GetTable(sourceTables, TableKey(table.table_schema, table.table_name))),
               Objects(GetTable(targetTables, TableKey(table.table_schema, table.table_name)))))
           > 0)

TriggersOf(t) == t.triggers

PoliciesOf(t) == t.policies

\* lines 848-863
NewTableTriggers(new, schemaMap) ==
    Flatten([i \in DOMAIN new |->
        ObjectStatements("CREATE TRIGGER", RefKey(new[i]),
            GetTable(schemaMap, RefKey(new[i])).triggers, "main",
            <<Comment("Triggers for table")>>)])

\* lines 865-886
ExistingTableTriggers(existing, sourceTables, targetTables) ==
    Flatten([i \in DOMAIN existing |->
        ObjectStatements("CREATE TRIGGER",
            TableKey(existing[i].table_schema, existing[i].table_name),
            MissingNames(
                GetTable(sourceTables, TableKey(existing[i].table_schema, existing[i].table_name)).triggers,
                GetTable(targetTables, TableKey(existing[i].table_schema, existing[i].table_name)).triggers),
            "existing", <<Comment("Add triggers to existing table")>>)])

\* lines 835-889; the two metadata stand for their tables Maps, the only part read
generateTriggersSQL(d, sourceMetadata, targetMetadata) ==
    IF \/ Len(OwnerTables(d, sourceMetadata, TriggersOf)) > 0
       \/ Len(LackingTables(d, sourceMetadata, targetMetadata, TriggersOf)) > 0
    THEN <<Comment("TRIGGERS")>>
         \o NewTableTriggers(OwnerTables(d, sourceMetadata, TriggersOf), sourceMetadata)
         \o ExistingTableTriggers(LackingTables(d, sourceMetadata, targetMetadata, TriggersOf),
                                  sourceMetadata, targetMetadata)
    ELSE <<Comment("No triggers to create")>>

\* ALTER TABLE ... ENABLE ROW LEVEL SECURITY
EnableRLS(tableKey, section) ==
    Statement("ENABLE ROW LEVEL SECURITY", tableKey, "", section, <<>>, NoKey, FALSE)

\* lines 905-935
NewTablePolicies(new, schemaMap) ==
    Flatten([i \in DOMAIN new |->
        ObjectStatements("CREATE POLICY", RefKey(new[i]),
            GetTable(schemaMap, RefKey(new[i])).policies, "main",
            <<Comment("RLS policies for table"), EnableRLS(RefKey(new[i]), "main")>>)])

\* lines 937-967
ExistingTablePolicies(existing, sourceTables, targetTables) ==
    Flatten([i \in DOMAIN existing |->
        ObjectStatements("CREATE POLICY",
            TableKey(existing[i].table_schema, existing[i].table_name),
            MissingNames(
                GetTable(sourceTables, TableKey(existing[i].table_schema, existing[i].table_name)).policies,
                GetTable(targetTables, TableKey(existing[i].table_schema, existing[i].table_name)).policies),
            "existing",
            <<Comment("Add RLS policies to existing table"),
              EnableRLS(TableKey(existing[i].table_schema, existing[i].table_name), "existing")>>)])

\* lines 892-970; the two metadata stand for their tables Maps, the only part read
generatePoliciesSQL(d, sourceMetadata, targetMetadata) ==
    IF \/ Len(OwnerTables(d, sourceMetadata, PoliciesOf)) > 0
       \/ Len(LackingTables(d, sourceMetadata, targetMetadata, PoliciesOf)) > 0
    THEN <<Comment("RLS POLICIES")>>
         \o NewTablePolicies(OwnerTables(d, sourceMetadata, PoliciesOf), sourceMetadata)
         \o ExistingTablePolicies(LackingTables(d, sourceMetadata, targetMetadata, PoliciesOf),
                                  sourceMetadata, targetMetadata)
    ELSE <<Comment("No RLS policies to create")>>

Begin == Statement("BEGIN", NoKey, "", "", <<>>, NoKey, FALSE)

Commit == Statement("COMMIT", NoKey, "", "", <<>>, NoKey, FALSE)

TotalFiles == 8

\* a plausible slip: the single scope wraps every file like per-file
wrapInTransactionEveryFile(sql, scope, fileNumber, totalFiles) ==
    IF scope = "none" THEN sql ELSE <<Begin>> \o sql \o <<Commit>>

wrapInTransaction(sql, scope, fileNumber, totalFiles) ==
    IF scope = "none" THEN sql
    ELSE IF scope = "per-file" THEN <<Begin>> \o sql \o <<Commit>>
    ELSE IF fileNumber = 1 THEN <<Begin>> \o sql
    ELSE IF fileNumber = totalFiles THEN sql \o <<Commit>>
    ELSE sql

\* a plausible slip: stage 7 written under the key of stage 6, which the object keeps once
StageKeysRepeated ==
    <<"1-extensions-enums", "2-sequences", "3-tables", "4-indexes",
      "5-constraints-foreign-keys", "6-functions", "6-functions", "8-policies">>

StageKeys ==
    <<"1-extensions-enums", "2-sequences", "3-tables", "4-indexes",
      "5-constraints-foreign-keys", "6-functions", "7-triggers", "8-policies">>

\* the header line: "-- Migration: <direction>" (the generation time is left out)
Header(direction) == Statement("HEADER", NoKey, direction, "", <<>>, NoKey, FALSE)

\* lines 1068-1099: one returned entry, wrapped unless the scope is "none"
SplitFile(fileNumber, text, transactionScope) ==
    [key |-> StageKeys[fileNumber],
     sql |-> IF transactionScope # "none"
             THEN wrapInTransaction(text, transactionScope, fileNumber, TotalFiles)
             ELSE text]

\* lines 1068-1099 for the snapshot read, the snapshot written and the direction flag;
\* the generators that read only the tables Map of a snapshot are handed that Map
SplitFiles(d, sourceMetadataToUse, targetMetadataToUse, isSourceToTarget, header, transactionScope, sortByDependencies, handleCircularDeps) ==
    << SplitFile(1, header \o generateExtensionsEnumsSQL(sourceMetadataToUse, targetMetadataToUse),
                 transactionScope),
       SplitFile(2, header \o generateSequencesSQL(d, sourceMetadataToUse.tables),
                 transactionScope),
       SplitFile(3, header \o generateTablesSQL(d, sourceMetadataToUse.tables, sortByDependencies,
                                                handleCircularDeps, isSourceToTarget),
                 transactionScope),
       SplitFile(4, header \o generateIndexesSQL(d, sourceMetadataToUse.tables), transactionScope),
       SplitFile(5, header \o generateConstraintsForeignKeysSQL(d, sourceMetadataToUse.tables,
                                                                isSourceToTarget),
                 transactionScope),
       SplitFile(6, header \o generateFunctionsSQL(sourceMetadataToUse, targetMetadataToUse),
                 transactionScope),
       SplitFile(7, header \o generateTriggersSQL(d, sourceMetadataToUse.tables,
                                                  targetMetadataToUse.tables),
                 transactionScope),
       SplitFile(8, header \o generatePoliciesSQL(d, sourceMetadataToUse.tables,
                                                  targetMetadataToUse.tables),
                 transactionScope) >>

\* lines 1051-1101; sourceMetadata and targetMetadata are SchemaMetadata records
generateSplitMigrationSQL(d, sourceMetadata, targetMetadata, direction, transactionScope, sortByDependencies, handleCircularDeps) ==
    SplitFiles(d,
               IF direction = "source-to-target" THEN sourceMetadata ELSE targetMetadata,
               IF direction = "source-to-target" THEN targetMetadata ELSE sourceMetadata,
               direction = "source-to-target", <<Header(direction)>>, transactionScope,
               sortByDependencies, handleCircularDeps)

----------------------------------------------------------------------------
(* generateFullDatabaseSQL *)

\* line 980: "-- Full Schema Dump: <label>" (the generation time is left out)
FullHeader == Statement("HEADER", NoKey, "Full Schema Dump", "", <<>>, NoKey, FALSE)

\* lines 984-987: every table of the snapshot, as a reference
AllTables(metadata) == [i \in DOMAIN metadata.tables |-> TableRef(metadata.tables[i])]

\* a plausible slip: the tables listed on the target side
FullDiffOnTarget(metadata) ==
    [tablesOnlyInSource |-> <<>>, tablesOnlyInTarget |-> AllTables(metadata),
     tablesInBoth |-> <<>>]

\* lines 989-993
FullDiff(metadata) ==
    [tablesOnlyInSource |-> AllTables(metadata), tablesOnlyInTarget |-> <<>>,
     tablesInBoth |-> <<>>]

\* lines 996-1001
EmptyMetadata == [tables |-> <<>>, enums |-> <<>>, extensions |-> <<>>, functions |-> <<>>]

\* lines 1018-1035: one returned entry, wrapped unless the scope is "none"
FullFile(fileNumber, text, transactionScope) ==
    [key |-> StageKeys[fileNumber],
     sql |-> IF transactionScope # "none"
             THEN wrapInTransaction(text, transactionScope, fileNumber, TotalFiles)
             ELSE text]

\* lines 1003-1016
FullFiles(fullDiff, metadata, emptyMetadata, header, transactionScope, sortByDependencies, handleCircularDeps) ==
    << FullFile(1, header \o generateExtensionsEnumsSQL(metadata, emptyMetadata), transactionScope),
       FullFile(2, header \o generateSequencesSQL(fullDiff, metadata.tables), transactionScope),
       FullFile(3, header \o generateTablesSQL(fullDiff, metadata.tables, sortByDependencies,
                                               handleCircularDeps, TRUE),
                transactionScope),
       FullFile(4, header \o generateIndexesSQL(fullDiff, metadata.tables), transactionScope),
       FullFile(5, header \o generateConstraintsForeignKeysSQL(fullDiff, metadata.tables, TRUE),
                transactionScope),
       FullFile(6, header \o generateFunctionsSQL(metadata, emptyMetadata), transactionScope),
       FullFile(7, header \o generateTriggersSQL(fullDiff, metadata.tables, emptyMetadata.tables),
                transactionScope),
       FullFile(8, header \o generatePoliciesSQL(fullDiff, metadata.tables, emptyMetadata.tables),
                transactionScope) >>

\* lines 973-1038 (dbLabel only names the database in the header)
generateFullDatabaseSQL(metadata, transactionScope, sortByDependencies, handleCircularDeps) ==
    FullFiles(FullDiff(metadata), metadata, EmptyMetadata, <<FullHeader>>, transactionScope,
              sortByDependencies, handleCircularDeps)

----------------------------------------------------------------------------
(* generateRollbackSQL. A line of the rollback text is a statement whose     *)
(* section field holds the text written in front of it: "" for an executable *)
(* statement, the dry-run prefix, or "-- " followed by the prefix.           *)

\* a plausible slip: the prefix is left out
CommentPrefixNone(dryRun) == ""

\* line 1785
CommentPrefix(dryRun) == IF dryRun THEN "-- [DRY-RUN] " ELSE ""

\* line 1973: `-- ${commentPrefix}`
CommentedOut(commentPrefix) == IF commentPrefix = "" THEN "-- " ELSE "-- -- [DRY-RUN] "

Line(prefix, op, tableKey, name) == Statement(op, tableKey, name, prefix, <<>>, NoKey, FALSE)

\* a '\n' appended on its own
Blank == Statement("BLANK", NoKey, "", "", <<>>, NoKey, FALSE)

DiffKey(tableDiff) == TableKey(tableDiff.table_schema, tableDiff.table_name)

\* the differing tables found in the snapshot rolled back and accepted by Has
RollbackTables(d, metadataToRollback, Has(_)) ==
    SelectSeq(d.tablesInBoth, LAMBDA tableDiff :
        /\ HasTable(metadataToRollback.tables, DiffKey(tableDiff))
        /\ Has(GetTable(metadataToRollback.tables, DiffKey(tableDiff))))

HasPolicies(t) == Len(t.policies) > 0

HasTriggers(t) == Len(t.triggers) > 0

HasIndexes(t) == Len(t.indexes) > 0

HasSequences(t) == Len(t.sequences) > 0

HasConstraints(t) == Len(t.foreignKeys) > 0 \/ Len(t.constraints) > 0

\* lines 1789-1805
RollbackPolicies(found, metadataToRollback, commentPrefix) ==
    Flatten([i \in DOMAIN found |->
        <<Comment("Rollback policies for")>>
        \o [j \in DOMAIN GetTable(metadataToRollback.tables, DiffKey(found[i])).policies |->
               Line(commentPrefix, "DROP POLICY", DiffKey(found[i]),
                    GetTable(metadataToRollback.tables, DiffKey(found[i])).policies[j])]
        \o <<Line(commentPrefix, "DISABLE ROW LEVEL SECURITY", DiffKey(found[i]), "")>>])

\* lines 1807-1822
RollbackTriggers(found, metadataToRollback, commentPrefix) ==
    Flatten([i \in DOMAIN found |->
        <<Comment("Rollback triggers for")>>
        \o [j \in DOMAIN GetTable(metadataToRollback.tables, DiffKey(found[i])).triggers |->
               Line(commentPrefix, "DROP TRIGGER", DiffKey(found[i]),
                    GetTable(metadataToRollback.tables, DiffKey(found[i])).triggers[j])]])

\* lines 1833-1855: the foreign keys, then the constraints that are no primary key
TableConstraintDrops(tableKey, tableInfo, commentPrefix) ==
    [j \in DOMAIN tableInfo.foreignKeys |->
        Line(commentPrefix, "DROP CONSTRAINT", tableKey, tableInfo.foreignKeys[j].constraint_name)]
    \o [j \in DOMAIN SelectSeq(tableInfo.constraints,
                               LAMBDA c : c.constraint_type # "PRIMARY KEY") |->
        Line(commentPrefix, "DROP CONSTRAINT", tableKey,
             SelectSeq(tableInfo.constraints,
                       LAMBDA c : c.constraint_type # "PRIMARY KEY")[j].constraint_name)]

\* lines 1824-1861
RollbackConstraints(found, metadataToRollback, commentPrefix) ==
    Flatten([i \in DOMAIN found |->
        <<Comment("Rollback constraints for")>>
        \o TableConstraintDrops(DiffKey(found[i]),
               GetTable(metadataToRollback.tables, DiffKey(found[i])), commentPrefix)])

\* lines 1863-1880: every index that is no primary key
RollbackIndexes(found, metadataToRollback, commentPrefix) ==
    Flatten([i \in DOMAIN found |->
        <<Comment("Rollback indexes for")>>
        \o [j \in DOMAIN SelectSeq(GetTable(metadataToRollback.tables, DiffKey(found[i])).indexes,
                                   LAMBDA idx : ~idx.is_primary) |->
               Line(commentPrefix, "DROP INDEX", DiffKey(found[i]),
                    SelectSeq(GetTable(metadataToRollback.tables, DiffKey(found[i])).indexes,
                              LAMBDA idx : ~idx.is_primary)[j].index_name)]])

\* lines 1886-1900
DropTables(tablesToDrop, commentPrefix) ==
    IF Len(tablesToDrop) > 0
    THEN <<Comment("DROP TABLES")>>
         \o Flatten([i \in DOMAIN tablesToDrop |->
               <<Comment("Check row count before dropping"),
                 Line(commentPrefix, "DROP TABLE", RefKey(tablesToDrop[i]), tablesToDrop[i].table)>>])
    ELSE <<>>

\* lines 1902-1913: the columns of columnsOnlyInSource, whatever the direction
DropColumns(d, commentPrefix) ==
    Flatten([i \in DOMAIN SelectSeq(d.tablesInBoth,
                                    LAMBDA t : Len(t.columnsOnlyInSource) > 0) |->
        <<Comment("Drop columns added to")>>
        \o [j \in DOMAIN SelectSeq(d.tablesInBoth,
                LAMBDA t : Len(t.columnsOnlyInSource) > 0)[i].columnsOnlyInSource |->
               Line(commentPrefix, "DROP COLUMN",
                    DiffKey(SelectSeq(d.tablesInBoth,
                                LAMBDA t : Len(t.columnsOnlyInSource) > 0)[i]),
                    SelectSeq(d.tablesInBoth,
                        LAMBDA t : Len(t.columnsOnlyInSource) > 0)[i].columnsOnlyInSource[j].column_name)]])

\* lines 1915-1929
RollbackSequences(found, metadataToRollback, commentPrefix) ==
    Flatten([i \in DOMAIN found |->
        <<Comment("Rollback sequences for")>>
        \o [j \in DOMAIN GetTable(metadataToRollback.tables, DiffKey(found[i])).sequences |->
               Line(commentPrefix, "DROP SEQUENCE", DiffKey(found[i]),
                    GetTable(metadataToRollback.tables, DiffKey(found[i])).sequences[j])]])

\* lines 1934-1950 and 1955-1969: a drop for every object the other snapshot lacks, then
\* a blank line when the snapshot rolled back has such objects at all
DropMissing(op, mine, theirs, commentPrefix) ==
    [i \in DOMAIN MissingByName(mine, theirs) |->
        Line(commentPrefix, op, NoKey, MissingByName(mine, theirs)[i].name)]
    \o (IF Len(mine) > 0 THEN <<Blank>> ELSE <<>>)

\* a plausible slip: the extension drops take the prefix of every other drop
DropExtensionsPrefixed(extensions, commentPrefix) ==
    IF Len(extensions) > 0
    THEN <<Comment("Extensions are typically NOT dropped in rollback")>>
         \o [i \in DOMAIN extensions |->
                Line(commentPrefix, "DROP EXTENSION", NoKey, extensions[i].name)]
         \o <<Blank>>
    ELSE <<>>

\* lines 1966-1977: extensions are listed as comments, never as executable drops
DropExtensions(extensions, commentPrefix) ==
    IF Len(extensions) > 0
    THEN <<Comment("Extensions are typically NOT dropped in rollback")>>
         \o [i \in DOMAIN extensions |->
                Line(CommentedOut(commentPrefix), "DROP EXTENSION", NoKey, extensions[i].name)]
         \o <<Blank>>
    ELSE <<>>

\* lines 1749-1783: the header
RollbackHeader(direction, dryRun) ==
    Statement("HEADER", NoKey, direction,
              IF dryRun THEN "DRY-RUN" ELSE "DRY-RUN DISABLED", <<>>, NoKey, FALSE)

\* lines 1980-1989: header + (text || sentinel)
RollbackFile(key, header, text, sentinel) ==
    [key |-> key, sql |-> header \o (IF Len(text) > 0 THEN text ELSE <<Comment(sentinel)>>)]

\* lines 1785-1990 for the snapshot rolled back, the snapshot compared against, the
\* tables to drop and the prefix; the object literal lists stage 8 first
RollbackFiles(d, metadataToRollback, comparisonMetadata, tablesToDrop, commentPrefix, header) ==
    << RollbackFile("8-policies", header,
           RollbackPolicies(RollbackTables(d, metadataToRollback, HasPolicies),
                            metadataToRollback, commentPrefix),
           "No policies to rollback"),
       RollbackFile("7-triggers", header,
           RollbackTriggers(RollbackTables(d, metadataToRollback, HasTriggers),
                            metadataToRollback, commentPrefix),
           "No triggers to rollback"),
       RollbackFile("6-functions", header,
           DropMissing("DROP FUNCTION", metadataToRollback.functions,
                       comparisonMetadata.functions, commentPrefix),
           "No functions to rollback"),
       RollbackFile("5-constraints-foreign-keys", header,
           RollbackConstraints(RollbackTables(d, metadataToRollback, HasConstraints),
                               metadataToRollback, commentPrefix),
           "No constraints to rollback"),
       RollbackFile("4-indexes", header,
           RollbackIndexes(RollbackTables(d, metadataToRollback, HasIndexes),
                           metadataToRollback, commentPrefix),
           "No indexes to rollback"),
       RollbackFile("3-tables", header,
           DropTables(tablesToDrop, commentPrefix) \o DropColumns(d, commentPrefix),
           "No tables or columns to rollback"),
       RollbackFile("2-sequences", header,
           RollbackSequences(RollbackTables(d, metadataToRollback, HasSequences),
                             metadataToRollback, commentPrefix),
           "No sequences to rollback"),
       RollbackFile("1-extensions-enums", header,
           DropMissing("DROP TYPE", metadataToRollback.enums, comparisonMetadata.enums,
                       commentPrefix)
           \o DropExtensions(metadataToRollback.extensions, commentPrefix),
           "No extensions/enums to rollback") >>

\* lines 1747-1991
generateRollbackSQL(d, sourceMetadata, targetMetadata, direction, dryRun) ==
    RollbackFiles(d,
        IF direction = "source-to-target" THEN sourceMetadata ELSE targetMetadata,
        IF direction = "source-to-target" THEN targetMetadata ELSE sourceMetadata,
        IF direction = "source-to-target" THEN d.tablesOnlyInSource ELSE d.tablesOnlyInTarget,
        CommentPrefix(dryRun), <<RollbackHeader(direction, dryRun)>>)

----------------------------------------------------------------------------
(* applyFilters (comparison.ts). The call works on a store of two objects:   *)
(* the SchemaDiff passed in, under "diff", and the object literal built at   *)
(* lines 405-409, under "filtered". Every assignment of the function writes  *)
(* a field of the object that the constant `filtered` refers to.             *)

\* a plausible slip: `const filtered = diff`, the same object under a second name
FilterRefAlias == "diff"

\* lines 405-409: `filtered` refers to the new object
FilterRef == "filtered"

\* `object.field = value`
Write(store, ref, field, value) == [store EXCEPT ![ref][field] = value]

\* lines 405-409
NewStore(d) ==
    [diff |-> d,
     filtered |-> [tablesOnlyInSource |-> d.tablesOnlyInSource,
                   tablesOnlyInTarget |-> d.tablesOnlyInTarget,
                   tablesInBoth |-> d.tablesInBoth]]

\* lines 412-415
OnlyMissingTables(store, ref, filters) ==
    IF filters.onlyMissingTables THEN Write(store, ref, "tablesInBoth", <<>>) ELSE store

\* lines 418-422
OnlyColumnDiffs(store, ref, filters) ==
    IF filters.onlyColumnDiffs
    THEN Write(Write(store, ref, "tablesOnlyInSource", <<>>), ref, "tablesOnlyInTarget", <<>>)
    ELSE store

\* lines 428-435: a copy of the table with the critical column differences only
CriticalColumns(table) ==
    [table EXCEPT !.columnsWithDifferences = SelectSeq(@, LAMBDA col : col.isCritical)]

\* a plausible slip: a table is kept while any difference is left
HasColumnDifferencesOrOthers(table) == HasDifferences(table)

\* lines 436-441
HasColumnDifferences(table) ==
    \/ Len(table.columnsOnlyInSource) > 0
    \/ Len(table.columnsOnlyInTarget) > 0
    \/ Len(table.columnsWithDifferences) > 0

\* lines 425-442
CriticalOnly(store, ref, filters) ==
    IF filters.criticalOnly
    THEN Write(store, ref, "tablesInBoth",
               SelectSeq([i \in DOMAIN store[ref].tablesInBoth |->
                             CriticalColumns(store[ref].tablesInBoth[i])],
                         HasColumnDifferences))
    ELSE store

\* lines 404-445: the store when the function returns
FilterStore(d, filters, ref) ==
    CriticalOnly(OnlyColumnDiffs(OnlyMissingTables(NewStore(d), ref, filters), ref, filters),
                 ref, filters)

\* lines 404-445: the value returned
applyFilters(d, filters) == FilterStore(d, filters, FilterRef)[FilterRef]

----------------------------------------------------------------------------
(* calculateHealthMetrics (part_003 lines 1672-1741). An issue is modelled   *)
(* by the count and the kind its message names.                              *)

\* lines 1676-1677
MissingTableCount(d) == Len(d.tablesOnlyInSource) + Len(d.tablesOnlyInTarget)

\* lines 1691-1703: the loop over tablesInBoth, from table i on, for the three counters
RECURSIVE CountColumns(_, _, _)
CountColumns(tablesInBoth, i, counts) ==
    IF i > Len(tablesInBoth) THEN counts
    ELSE LET table == tablesInBoth[i]
         IN CountColumns(tablesInBoth, i + 1,
                [missingColumns |-> counts.missingColumns + Len(table.columnsOnlyInSource)
                                                         + Len(table.columnsOnlyInTarget),
                 criticalDiffs |-> counts.criticalDiffs
                     + Len(SelectSeq(table.columnsWithDifferences, LAMBDA c : c.isCritical)),
                 nonCriticalDiffs |-> counts.nonCriticalDiffs
                     + Len(SelectSeq(table.columnsWithDifferences, LAMBDA c : ~c.isCritical))])

\* a plausible slip: the weights of critical and non-critical differences exchanged
DeductSwapped(missingTableCount, counts) ==
    100 - missingTableCount * 10 - counts.criticalDiffs * 3 - counts.nonCriticalDiffs * 8
        - counts.missingColumns * 5

\* lines 1674, 1681, 1706-1708
Deduct(missingTableCount, counts) ==
    100 - missingTableCount * 10 - counts.criticalDiffs * 8 - counts.nonCriticalDiffs * 3
        - counts.missingColumns * 5

\* line 1725: Math.max(0, score)
MathMax(a, b) == IF a >= b THEN a ELSE b

\* lines 1728-1738
Severity(score) ==
    IF score >= 90 THEN "healthy"
    ELSE IF score >= 70 THEN "minor"
    ELSE IF score >= 40 THEN "moderate"
    ELSE "critical"

\* lines 1682-1684, 1710-1724: the messages pushed, in order
Issue(count, kind) == IF count > 0 THEN <<[count |-> count, kind |-> kind]>> ELSE <<>>

Issues(missingTableCount, counts) ==
    Issue(missingTableCount, "tables in only one database")
    \o Issue(counts.criticalDiffs, "critical column differences")
    \o Issue(counts.missingColumns, "columns missing")
    \o Issue(counts.nonCriticalDiffs, "non-critical column differences")

\* lines 1725-1740 for the score after the deductions
HealthOf(score, issues) ==
    [score |-> MathMax(0, score), issues |-> issues, severity |-> Severity(MathMax(0, score))]

\* lines 1672-1741
calculateHealthMetrics(d) ==
    HealthOf(Deduct(MissingTableCount(d),
                    CountColumns(d.tablesInBoth, 1,
                        [missingColumns |-> 0, criticalDiffs |-> 0, nonCriticalDiffs |-> 0])),
             Issues(MissingTableCount(d),
                    CountColumns(d.tablesInBoth, 1,
                        [missingColumns |-> 0, criticalDiffs |-> 0, nonCriticalDiffs |-> 0])))

----
(* Graph theory used to state the claims *)

\* nodes reachable from a in at least one step
RECURSIVE ReachN(_, _, _)
ReachN(g, frontier, n) ==
    IF n = 0 THEN frontier
    ELSE LET next == frontier \cup {b \in Range(g.keys) : \E a \in frontier : Edge(g, a, b)}
         IN ReachN(g, next, n - 1)

ReachableFrom(g, a) ==
    ReachN(g, {b \in Range(g.keys) : Edge(g, a, b)}, Len(g.keys))

OnCycle(g, a) == a \in ReachableFrom(g, a)

Acyclic(g) == \A a \in Range(g.keys) : ~OnCycle(g, a)

Before(s, x, y) == IndexOf(s, x) > 0 /\ IndexOf(s, y) > 0 /\ IndexOf(s, x) < IndexOf(s, y)

----------------------------------------------------------------------------
(* Specification of the sorter: a working set, its graph, its order *)

TableNames == {"a", "b", "c"}

\* foreign-key lists of one table: each key references any table name
FKNames ==
    [a |-> <<"a_fk1", "a_fk2", "a_fk3", "a_fk4">>, b |-> <<"b_fk1", "b_fk2", "b_fk3", "b_fk4">>,
     c |-> <<"c_fk1", "c_fk2", "c_fk3", "c_fk4">>, d |-> <<"d_fk1", "d_fk2", "d_fk3", "d_fk4">>]

FKLists(owner, names) ==
    {[i \in DOMAIN s |-> MkFK(FKNames[owner][i], s[i])] : s \in SeqsUpTo(names, MaxFKs)}

\* snapshots holding a subset of the names, inserted in a fixed order
RECURSIVE SnapshotsOver(_, _)
SnapshotsOver(order, names) ==
    IF order = <<>> THEN {<<>>}
    ELSE LET rest == SnapshotsOver(Tail(order), names)
         IN rest \cup {<<MkTable(Head(order), <<>>, <<>>, fks, <<>>)>> \o r :
                          fks \in FKLists(Head(order), names), r \in rest}

\* initial values of the variables a pipeline has not written yet
SortIdle == tables = <<>> /\ graph = EmptyGraph /\ sortResult = None /\ foundCycles = None

CompareIdle == diff = None /\ diffRev = None

GenerateIdle == opts = None /\ files = None /\ filtered = None /\ health = None

ObjectsIdle == objects = [source |-> NoObjects, target |-> NoObjects]

ColumnIdle == srcCol = None /\ tgtCol = None /\ colResult = None

SortInit ==
    /\ pc = "start"
    /\ source \in SnapshotsOver(<<"a", "b", "c">>, TableNames)
    /\ target = <<>>
    /\ SortIdle /\ CompareIdle /\ GenerateIdle /\ ColumnIdle /\ ObjectsIdle

\* the working set of a full dump: every table of the snapshot
ChooseTables ==
    /\ pc = "start"
    /\ tables' = [i \in DOMAIN source |-> TableRef(source[i])]
    /\ pc' = "tables"
    /\ UNCHANGED <<source, target, graph, sortResult, diff, diffRev, opts, files,
                   srcCol, tgtCol, colResult,
                   objects, filtered, health, foundCycles>>

BuildGraph ==
    /\ pc = "tables"
    /\ graph' = buildDependencyGraph(tables, source)
    /\ pc' = "graph"
    /\ UNCHANGED <<source, target, tables, sortResult, diff, diffRev, opts, files,
                   srcCol, tgtCol, colResult,
                   objects, filtered, health, foundCycles>>

Sort ==
    /\ pc = "graph"
    /\ sortResult' = topologicalSort(graph)
    /\ pc' = "sorted"
    /\ UNCHANGED <<source, target, tables, graph, diff, diffRev, opts, files,
                   srcCol, tgtCol, colResult,
                   objects, filtered, health, foundCycles>>

\* generateTablesSQL lines 532-534: the cycles are looked for when the sort found some
FindCycles ==
    /\ pc = "sorted"
    /\ sortResult.hasCycles
    /\ foundCycles' = findStronglyConnectedComponents(graph)
    /\ pc' = "cycles"
    /\ UNCHANGED <<source, target, tables, graph, sortResult, diff, diffRev, opts, files,
                   srcCol, tgtCol, colResult, objects, filtered, health>>

SortNext == ChooseTables \/ BuildGraph \/ Sort \/ FindCycles

SpecSort == SortInit /\ [][SortNext]_vars

\* C3's working set: the cycle a -> b -> c -> a and a table d that is on no edge
\* (d may reference itself or a table outside the working set), in any insertion order
CycleTable(name) ==
    CASE name = "a" -> {MkTable("a", <<>>, <<>>, <<MkFK("a_fk1", "b")>>, <<>>)}
      [] name = "b" -> {MkTable("b", <<>>, <<>>, <<MkFK("b_fk1", "c")>>, <<>>)}
      [] name = "c" -> {MkTable("c", <<>>, <<>>, <<MkFK("c_fk1", "a")>>, <<>>)}
      [] OTHER -> {MkTable("d", <<>>, <<>>, fks, <<>>) :
                      fks \in {<<>>, <<MkFK("d_fk1", "d")>>, <<MkFK("d_fk1", "x")>>}}

CycleNames == {"a", "b", "c", "d"}

CycleInit ==
    /\ pc = "start"
    /\ \E order \in DistinctSeqsUpTo(CycleNames, 4) :
          /\ Len(order) = 4
          /\ source \in {s \in [1..4 -> UNION {CycleTable(n) : n \in CycleNames}] :
                            \A i \in 1..4 : s[i].table_name = order[i]}
    /\ target = <<>>
    /\ SortIdle /\ CompareIdle /\ GenerateIdle /\ ColumnIdle /\ ObjectsIdle

SpecCycle == CycleInit /\ [][SortNext]_vars

----------------------------------------------------------------------------
(* Specifications of the comparator *)

Compare ==
    /\ pc = "start"
    /\ diff' = compareSchemas(source, target)
    /\ pc' = "compared"
    /\ UNCHANGED <<source, target, tables, graph, sortResult, diffRev, opts, files,
                   srcCol, tgtCol, colResult,
                   objects, filtered, health, foundCycles>>

\* the same comparison with the two snapshots exchanged
CompareReverse ==
    /\ pc = "compared"
    /\ diffRev' = compareSchemas(target, source)
    /\ pc' = "reversed"
    /\ UNCHANGED <<source, target, tables, graph, sortResult, diff, opts, files,
                   srcCol, tgtCol, colResult,
                   objects, filtered, health, foundCycles>>

CompareNext == Compare \/ CompareReverse

\* snapshots of empty tables, in every insertion order
TableLists ==
    {[i \in DOMAIN s |-> MkTable(s[i], <<>>, <<>>, <<>>, <<>>)] :
        s \in DistinctSeqsUpTo(TableNames, Cardinality(TableNames))}

TablesInit ==
    /\ pc = "start"
    /\ source \in TableLists
    /\ target \in TableLists
    /\ SortIdle /\ CompareIdle /\ GenerateIdle /\ ColumnIdle /\ ObjectsIdle

SpecTables == TablesInit /\ [][CompareNext]_vars

NamePool == <<"n1", "n2", "n3", "n4">>

Names == {NamePool[i] : i \in 1..MaxNames}

\* clause texts: three spellings of one condition, two of a condition with another literal
Clauses ==
    { <<"x", " ", ">", " ", "0">>,
      <<"(", "(", "X", " ", " ", ">", " ", "0", " ", ")", ")">>,
      <<" ", "(", " ", "x", " ", ">", " ", "0", ")">>,
      <<"x", " ", ">", " ", "1">>,
      <<"(", "x", " ", ">", " ", "1", ")">> }

CheckConstraints == {MkCheck(n, cl) : n \in Names, cl \in Clauses}

UniqueNames(cons) ==
    \A i, j \in DOMAIN cons : i # j => cons[i].constraint_name # cons[j].constraint_name

\* one table present in both snapshots, with up to two CHECK constraints on each side
CheckTables ==
    {MkTable("a", <<>>, <<>>, <<>>, cons) :
        cons \in {c \in SeqsUpTo(CheckConstraints, 2) : UniqueNames(c)}}

CheckInit ==
    /\ pc = "start"
    /\ \E s, t \in CheckTables : source = <<s>> /\ target = <<t>>
    /\ SortIdle /\ CompareIdle /\ GenerateIdle /\ ColumnIdle /\ ObjectsIdle

SpecCheck == CheckInit /\ [][CompareNext]_vars

ColumnLists == {s \in DistinctSeqsUpTo({"a", "b"}, 2) : Len(s) > 0}

UniqueConstraints == {MkUnique(n, cols) : n \in Names, cols \in ColumnLists}

Indexes ==
    {MkIndex(n, u, p, cols) : n \in Names, u \in BOOLEAN, p \in BOOLEAN, cols \in ColumnLists}

\* one table present in both snapshots, with at most one UNIQUE constraint and at most
\* one index on each side; a primary-key index is unique (database.ts line 222)
UniqueTables ==
    {MkTable("a", <<>>, idxs, <<>>, cons) :
        idxs \in {<<>>} \cup {<<i>> : i \in {x \in Indexes : x.is_primary => x.is_unique}},
        cons \in {<<>>} \cup {<<c>> : c \in UniqueConstraints}}

UniqueInit ==
    /\ pc = "start"
    /\ \E s, t \in UniqueTables : source = <<s>> /\ target = <<t>>
    /\ SortIdle /\ CompareIdle /\ GenerateIdle /\ ColumnIdle /\ ObjectsIdle

SpecUnique == UniqueInit /\ [][CompareNext]_vars

\* columns of one name: every combination of the six compared attributes
Columns ==
    {MkColumn("a", type, nullable, default, len, precision, scale) :
        type \in {"integer", "text"}, nullable \in {"YES", "NO"},
        default \in {NullText, "0"}, len \in {Null} \cup 1..MaxLen,
        precision \in {Null} \cup 1..MaxLen, scale \in {Null} \cup 0..1}

ColumnsInit ==
    /\ pc = "start"
    /\ srcCol \in Columns /\ tgtCol \in Columns /\ colResult = None
    /\ source = <<>> /\ target = <<>>
    /\ SortIdle /\ CompareIdle /\ GenerateIdle /\ ObjectsIdle

CompareColumns ==
    /\ pc = "start"
    /\ colResult' = compareColumns(srcCol, tgtCol)
    /\ pc' = "compared"
    /\ UNCHANGED <<source, target, tables, graph, sortResult, diff, diffRev, opts, files,
                   srcCol, tgtCol, objects, filtered, health, foundCycles>>

ColumnsNext == CompareColumns

SpecColumns == ColumnsInit /\ [][ColumnsNext]_vars


----------------------------------------------------------------------------
(* Specification of the migration generator: compare, then generate *)

Directions == {"source-to-target", "target-to-source"}

TransactionScopes == {"none", "per-file", "single"}

\* the target holds nothing or table c alone: a table of the source is new or exists
\* already, and c exists in the target only when the source lacks it
GenerateTargets == {<<>>, <<MkTable("c", <<>>, <<>>, <<>>, <<>>)>>}

\* the foreign keys of the table reference distinct tables, in the order a, b, c
DistinctTargets(fks) ==
    \A i, j \in DOMAIN fks :
        i < j => IndexOf(<<"a", "b", "c">>, fks[i].foreign_table_name)
                 < IndexOf(<<"a", "b", "c">>, fks[j].foreign_table_name)

GenerateInit ==
    /\ pc = "start"
    /\ source \in {s \in SnapshotsOver(<<"a", "b", "c">>, TableNames) :
                       \A i \in DOMAIN s : DistinctTargets(s[i].foreignKeys)}
    /\ target \in GenerateTargets
    /\ SortIdle /\ CompareIdle /\ GenerateIdle /\ ColumnIdle /\ ObjectsIdle

GenerateSplit ==
    /\ pc = "compared"
    /\ \E direction \in Directions, scope \in TransactionScopes,
          sortDependencies \in BOOLEAN, handleCircularDeps \in BOOLEAN :
          /\ opts' = [direction |-> direction, transactionScope |-> scope,
                      sortDependencies |-> sortDependencies,
                      handleCircularDeps |-> handleCircularDeps]
          /\ files' = generateSplitMigrationSQL(diff, Metadata(source, objects.source),
                          Metadata(target, objects.target), direction, scope,
                          sortDependencies, handleCircularDeps)
    /\ pc' = "generated"
    /\ UNCHANGED <<source, target, tables, graph, sortResult, diff, diffRev,
                   srcCol, tgtCol, colResult,
                   objects, filtered, health, foundCycles>>

GenerateNext == Compare \/ GenerateSplit

SpecGenerate == GenerateInit /\ [][GenerateNext]_vars


----------------------------------------------------------------------------
(* Claims about the comparator *)

NoTableDiff ==
    [columnsOnlyInSource |-> <<>>, columnsOnlyInTarget |-> <<>>, columnsWithDifferences |-> <<>>,
     indexesOnlyInSource |-> <<>>, indexesOnlyInTarget |-> <<>>,
     foreignKeysOnlyInSource |-> <<>>, foreignKeysOnlyInTarget |-> <<>>,
     constraintsOnlyInSource |-> <<>>, constraintsOnlyInTarget |-> <<>>]

\* the entry of table `name` in d.tablesInBoth; a table without entry has no difference
DiffOf(d, name) ==
    IF \E i \in DOMAIN d.tablesInBoth : d.tablesInBoth[i].table_name = name
    THEN d.tablesInBoth[CHOOSE i \in DOMAIN d.tablesInBoth : d.tablesInBoth[i].table_name = name]
    ELSE NoTableDiff

Compared == pc \in {"compared", "reversed"}

SourceChecks == {c \in Range(source[1].constraints) : c.constraint_type = "CHECK"}

TargetChecks == {c \in Range(target[1].constraints) : c.constraint_type = "CHECK"}

SameLogic(c1, c2) == normalizeCheckClause(c1.check_clause) = normalizeCheckClause(c2.check_clause)

\* C6: a source CHECK and a target CHECK with different normalized clauses are both
\* reported, whatever their names, provided no other constraint of the other side has
\* the same normalized clause.
C6_DifferentClauseReported ==
    Compared =>
        \A cs \in SourceChecks, ct \in TargetChecks :
            ( /\ ~SameLogic(cs, ct)
              /\ \A c \in TargetChecks : ~SameLogic(cs, c)
              /\ \A c \in SourceChecks : ~SameLogic(c, ct) )
            => /\ Contains(DiffOf(diff, "a").constraintsOnlyInSource, cs)
               /\ Contains(DiffOf(diff, "a").constraintsOnlyInTarget, ct)

\* C7: a source CHECK and a target CHECK with different names and equal normalized
\* clauses are in neither only-in list.
C7_SameClauseNotReported ==
    Compared =>
        \A cs \in SourceChecks, ct \in TargetChecks :
            (cs.constraint_name # ct.constraint_name /\ SameLogic(cs, ct))
            => /\ ~Contains(DiffOf(diff, "a").constraintsOnlyInSource, cs)
               /\ ~Contains(DiffOf(diff, "a").constraintsOnlyInTarget, ct)

\* C7 witness: compared, the two clauses are spelled differently, and neither name
\* exists on the other side, so that the clause comparison decides
C7_Witness ==
    /\ Compared
    /\ \E cs \in SourceChecks, ct \in TargetChecks :
          /\ SameLogic(cs, ct) /\ cs.check_clause # ct.check_clause
          /\ ~HasConstraint(target[1].constraints, cs.constraint_name)
          /\ ~HasConstraint(source[1].constraints, ct.constraint_name)
          /\ DiffOf(diff, "a").constraintsOnlyInSource = <<>>

UniquesOf(t) == {c \in Range(t.constraints) : c.constraint_type = "UNIQUE"}

SameColumnSet(c, idx) == Range(c.columns) = Range(idx.columns)

\* a UNIQUE constraint of `mine` and an index of `theirs` accepted by Matches are in
\* no only-in list
UniqueMatchesIndex(mine, theirs, onlyConstraints, onlyIndexes, Matches(_)) ==
    \A c \in UniquesOf(mine), idx \in Range(theirs.indexes) :
        (Matches(idx) /\ SameColumnSet(c, idx))
        => ~Contains(onlyConstraints, c) /\ ~Contains(onlyIndexes, idx)

\* C8 as stated: a UNIQUE constraint on one side and a unique index on the same column
\* set on the other side, whatever their names, are in no only-in list.
C8_UniqueIndexEquivalence ==
    Compared =>
        /\ UniqueMatchesIndex(source[1], target[1], DiffOf(diff, "a").constraintsOnlyInSource,
               DiffOf(diff, "a").indexesOnlyInTarget, LAMBDA idx : idx.is_unique)
        /\ UniqueMatchesIndex(target[1], source[1], DiffOf(diff, "a").constraintsOnlyInTarget,
               DiffOf(diff, "a").indexesOnlyInSource, LAMBDA idx : idx.is_unique)

\* C8 amended: the same for a unique index that is not a primary-key index.
C8_UniqueNonPrimaryIndexEquivalence ==
    Compared =>
        /\ UniqueMatchesIndex(source[1], target[1], DiffOf(diff, "a").constraintsOnlyInSource,
               DiffOf(diff, "a").indexesOnlyInTarget,
               LAMBDA idx : idx.is_unique /\ ~idx.is_primary)
        /\ UniqueMatchesIndex(target[1], source[1], DiffOf(diff, "a").constraintsOnlyInTarget,
               DiffOf(diff, "a").indexesOnlyInSource,
               LAMBDA idx : idx.is_unique /\ ~idx.is_primary)

\* C8 witness: UNIQUE (a, b) in source, a unique non-primary index on (b, a) under
\* another name in target, nothing else, and the comparison reports no difference
C8_Witness ==
    /\ Compared
    /\ source[1].indexes = <<>> /\ target[1].constraints = <<>>
    /\ \E c \in UniquesOf(source[1]), idx \in Range(target[1].indexes) :
          /\ c.columns = <<"a", "b">> /\ idx.columns = <<"b", "a">>
          /\ idx.is_unique /\ ~idx.is_primary
          /\ c.constraint_name # idx.index_name
    /\ diff.tablesInBoth = <<>>

SixAttributesEqual(c1, c2) ==
    /\ c1.data_type = c2.data_type
    /\ c1.is_nullable = c2.is_nullable
    /\ c1.column_default = c2.column_default
    /\ c1.character_maximum_length = c2.character_maximum_length
    /\ c1.numeric_precision = c2.numeric_precision
    /\ c1.numeric_scale = c2.numeric_scale

LengthShrinks(c1, c2) ==
    /\ c1.character_maximum_length # Null /\ c2.character_maximum_length # Null
    /\ c2.character_maximum_length < c1.character_maximum_length

\* C9: no difference exactly when the six attributes are equal; otherwise critical iff
\* the type differs, or nullable becomes NOT NULL, or the maximum length shrinks.
C9_ColumnCriticality ==
    pc = "compared" =>
        /\ colResult.isNull <=> SixAttributesEqual(srcCol, tgtCol)
        /\ ~colResult.isNull =>
              (colResult.isCritical <=>
                  \/ srcCol.data_type # tgtCol.data_type
                  \/ srcCol.is_nullable = "YES" /\ tgtCol.is_nullable = "NO"
                  \/ LengthShrinks(srcCol, tgtCol))

\* C9 witness: NOT NULL in source, nullable in target, compared as a non-critical difference
C9_Witness ==
    /\ pc = "compared"
    /\ srcCol.is_nullable = "NO" /\ tgtCol.is_nullable = "YES"
    /\ colResult.differences = <<"nullable">>
    /\ ~colResult.isCritical

\* C10: compare(A,B).tablesOnlyInSource = compare(B,A).tablesOnlyInTarget and
\* compare(A,B).tablesOnlyInTarget = compare(B,A).tablesOnlyInSource.
C10_DirectionSymmetry ==
    pc = "reversed" =>
        /\ diff.tablesOnlyInSource = diffRev.tablesOnlyInTarget
        /\ diff.tablesOnlyInTarget = diffRev.tablesOnlyInSource

\* C10 witness: both comparisons ran on snapshots that each have tables the other lacks
C10_Witness ==
    /\ pc = "reversed"
    /\ Len(diff.tablesOnlyInSource) = 2
    /\ diff.tablesOnlyInSource[1].table = "c"
    /\ Len(diff.tablesOnlyInTarget) = 1


K(name) == TableKey(Schema, name)

----------------------------------------------------------------------------
(* Claims about the migration generator *)

Generated == pc = "generated"

Stage(n) == files[n].sql

\* the snapshot the generator reads tables from in the chosen direction
MetadataToUse == IF opts.direction = "source-to-target" THEN source ELSE target

WorkingGraph == buildDependencyGraph(diff.tablesOnlyInSource, MetadataToUse)

Unsortable == Range(topologicalSort(WorkingGraph).remaining)

NewTables == {RefKey(diff.tablesOnlyInSource[i]) : i \in DOMAIN diff.tablesOnlyInSource}

\* positions of the statements of stage n with the given op and section
Positions(n, op, section) ==
    {i \in DOMAIN Stage(n) : Stage(n)[i].op = op /\ Stage(n)[i].section = section}

\* the statements at the positions name each table of the set once, and no other table
OncePerTable(n, positions, keys) ==
    /\ \A i \in positions : Stage(n)[i].table \in keys
    /\ \A k \in keys : Cardinality({i \in positions : Stage(n)[i].table = k}) = 1

C5_BothDirectionsCreateTables ==
    Generated =>
        LET missing == IF opts.direction = "source-to-target" THEN diff.tablesOnlyInSource
                       ELSE diff.tablesOnlyInTarget
        IN \A r \in DOMAIN missing :
               \E i \in DOMAIN Stage(3) :
                   Stage(3)[i].op = "CREATE TABLE" /\ Stage(3)[i].table = RefKey(missing[r])



\* C1: for an acyclic graph, if A references B then B appears before A in `sorted`.
C1_ReferencedBeforeReferencing ==
    (pc = "sorted" /\ Acyclic(graph)) =>
        \A a, b \in Range(graph.keys) :
            Edge(graph, a, b) => Before(sortResult.sorted, b, a)

\* C2: when fewer nodes are sorted than the graph has, every node of `remaining`
\* lies on a directed cycle of the graph.
C2_RemainingOnCycle ==
    (pc = "sorted" /\ Len(sortResult.sorted) < Len(graph.keys)) =>
        \A n \in Range(sortResult.remaining) : OnCycle(graph, n)

\* C3: for the cycle a -> b -> c -> a plus a table d without edges, in any insertion
\* order, hasCycles is true, remaining is exactly {a, b, c} and d is in `sorted`.
C3_CycleCompleteness ==
    pc = "sorted" =>
        /\ sortResult.hasCycles
        /\ Range(sortResult.remaining) = {K("a"), K("b"), K("c")}
        /\ Len(sortResult.remaining) = 3
        /\ Contains(sortResult.sorted, K("d"))

\* C3 witness: the sort has run on the graph with d inserted between cycle nodes
C3_Witness ==
    /\ pc = "sorted"
    /\ graph.keys = <<K("c"), K("d"), K("a"), K("b")>>
    /\ Edge(graph, K("a"), K("b")) /\ Edge(graph, K("b"), K("c")) /\ Edge(graph, K("c"), K("a"))
    /\ sortResult.hasCycles


----------------------------------------------------------------------------
(* Specification of the comparator on snapshots that may be structurally identical *)

\* table a with no column or column x of either type, no index or one index on x under
\* either name (unique or not), one foreign key or none, and no constraint or one CHECK
\* or UNIQUE constraint under either name
IdenticalColumns ==
    {<<>>} \cup {<<MkColumn("x", type, "YES", NullText, Null, Null, Null)>> :
                    type \in {"integer", "text"}}

IdenticalIndexes ==
    {<<>>, <<MkIndex("n1", FALSE, FALSE, <<"x">>)>>, <<MkIndex("n2", FALSE, FALSE, <<"x">>)>>,
     <<MkIndex("n1", TRUE, FALSE, <<"x">>)>>}

IdenticalConstraints ==
    {<<>>, <<MkUnique("n1", <<"x">>)>>, <<MkUnique("n2", <<"x">>)>>,
     <<MkCheck("n1", <<"x", " ", ">", " ", "0">>)>>,
     <<MkCheck("n2", <<"(", "X", " ", ">", " ", "0", ")">>)>>,
     <<MkCheck("n1", <<"x", " ", ">", " ", "1">>)>>}

IdenticalTables ==
    {MkTable("a", cols, idxs, fks, cons) :
        cols \in IdenticalColumns, idxs \in IdenticalIndexes,
        fks \in {<<>>, <<MkFK("a_fk1", "b")>>}, cons \in IdenticalConstraints}

IdenticalInit ==
    /\ pc = "start"
    /\ \E s, t \in IdenticalTables : source = <<s>> /\ target = <<t>>
    /\ SortIdle /\ CompareIdle /\ GenerateIdle /\ ColumnIdle /\ ObjectsIdle

SpecIdentical == IdenticalInit /\ [][CompareNext]_vars

\* every element of the first list has a counterpart in the second, and conversely
Matched(xs, ys, Same(_, _)) ==
    /\ \A i \in DOMAIN xs : \E j \in DOMAIN ys : Same(xs[i], ys[j])
    /\ \A j \in DOMAIN ys : \E i \in DOMAIN xs : Same(xs[i], ys[j])

SameColumn(c1, c2) == c1.column_name = c2.column_name /\ SixAttributesEqual(c1, c2)

SameForeignKey(f1, f2) == f1 = f2

SameIndexByColumnSet(i1, i2) ==
    /\ Range(i1.columns) = Range(i2.columns)
    /\ i1.is_unique = i2.is_unique /\ i1.is_primary = i2.is_primary

SameIndexByName(i1, i2) == i1.index_name = i2.index_name

SameConstraintByLogic(c1, c2) ==
    /\ c1.constraint_type = c2.constraint_type
    /\ IF c1.constraint_type = "CHECK" THEN SameLogic(c1, c2)
       ELSE Range(c1.columns) = Range(c2.columns)

\* the two snapshots hold the same table keys, and each pair of tables the same columns,
\* foreign keys, constraints by logic, and indexes in the sense of SameIndex
StructurallyIdentical(A, B, SameIndex(_, _)) ==
    /\ {InfoKey(A[i]) : i \in DOMAIN A} = {InfoKey(B[i]) : i \in DOMAIN B}
    /\ \A i \in DOMAIN A :
          LET a == A[i]
              b == GetTable(B, InfoKey(a))
          IN /\ Matched(a.columns, b.columns, SameColumn)
             /\ Matched(a.foreignKeys, b.foreignKeys, SameForeignKey)
             /\ Matched(a.indexes, b.indexes, SameIndex)
             /\ Matched(a.constraints, b.constraints, SameConstraintByLogic)

----------------------------------------------------------------------------
(* Specification of the three generators: split migration, full dump, rollback *)

\* table a: with or without a foreign key to b, with or without a column and an index,
\* with or without a sequence, a trigger and a policy
EmitTablesA ==
    {WithObjects(MkTable("a", cols, idxs, fks, <<>>), objs, objs, objs) :
        fks \in {<<>>, <<MkFK("a_fk1", "b")>>},
        cols \in {<<>>}, idxs \in {<<>>}, objs \in {<<>>, <<"o1">>}}
    \cup {WithObjects(MkTable("a", <<MkColumn("x", "integer", "YES", NullText, Null, Null, Null)>>,
                              <<MkIndex("n1", FALSE, FALSE, <<"x">>)>>, fks, <<>>), objs, objs, objs) :
        fks \in {<<>>, <<MkFK("a_fk1", "b")>>}, objs \in {<<>>, <<"o1">>}}

\* table b: with or without a foreign key to a, a CHECK constraint, a sequence, a trigger
\* and a policy
EmitTablesB ==
    {WithObjects(MkTable("b", <<>>, <<>>, fks, cons), objs, objs, objs) :
        fks \in {<<>>, <<MkFK("b_fk1", "a")>>},
        cons \in {<<>>}, objs \in {<<>>, <<"o1">>}}

EmitSources ==
    {ta \o tb : ta \in {<<>>} \cup {<<t>> : t \in EmitTablesA},
                tb \in {<<>>} \cup {<<t>> : t \in EmitTablesB}}

\* the target holds nothing, a bare table a, a table a with a column, an index, a foreign
\* key, a constraint and objects of its own, or a bare table b
EmitTargets ==
    { <<>>,
      <<MkTable("a", <<>>, <<>>, <<>>, <<>>)>>,
      <<WithObjects(MkTable("a", <<MkColumn("y", "text", "YES", NullText, Null, Null, Null)>>,
                            <<MkIndex("n2", TRUE, FALSE, <<"y">>)>>, <<MkFK("a_fk2", "b")>>,
                            <<MkCheck("c1", <<"y", ">", "0">>)>>),
                    <<"o2">>, <<"o2">>, <<"o2">>)>>,
      <<MkTable("b", <<>>, <<>>, <<>>, <<>>)>> }

SomeObjects(enumValues) ==
    [enums |-> <<[name |-> "mood", values |-> enumValues]>>,
     extensions |-> <<[name |-> "pgcrypto"]>>, functions |-> <<[name |-> "touch"]>>]

EmitInit ==
    /\ pc = "start"
    /\ source \in EmitSources
    /\ target \in EmitTargets
    /\ objects \in [source : {NoObjects, SomeObjects(<<"v1">>), SomeObjects(<<>>)},
                    target : {NoObjects, SomeObjects(<<"v1">>)}]
    /\ SortIdle /\ CompareIdle /\ GenerateIdle /\ ColumnIdle

GenerateFull ==
    /\ pc = "compared"
    /\ \E scope \in TransactionScopes, sortDependencies \in BOOLEAN,
          handleCircularDeps \in BOOLEAN :
          /\ opts' = [transactionScope |-> scope, sortDependencies |-> sortDependencies,
                      handleCircularDeps |-> handleCircularDeps]
          /\ files' = generateFullDatabaseSQL(Metadata(source, objects.source), scope,
                                              sortDependencies, handleCircularDeps)
    /\ pc' = "dumped"
    /\ UNCHANGED <<source, target, tables, graph, sortResult, diff, diffRev,
                   srcCol, tgtCol, colResult, objects, filtered, health, foundCycles>>

GenerateRollback ==
    /\ pc = "compared"
    /\ \E direction \in Directions, dryRun \in BOOLEAN :
          /\ opts' = [direction |-> direction, dryRun |-> dryRun]
          /\ files' = generateRollbackSQL(diff, Metadata(source, objects.source),
                                          Metadata(target, objects.target), direction, dryRun)
    /\ pc' = "rolledback"
    /\ UNCHANGED <<source, target, tables, graph, sortResult, diff, diffRev,
                   srcCol, tgtCol, colResult, objects, filtered, health, foundCycles>>

EmitNext == Compare \/ GenerateSplit \/ GenerateFull \/ GenerateRollback

SpecEmit == EmitInit /\ [][EmitNext]_vars


----------------------------------------------------------------------------
(* Claims about the rollback generator *)

RolledBack == pc = "rolledback"

\* every line of every returned file
FileLines == UNION {Range(files[n].sql) : n \in DOMAIN files}

\* the text of the file returned under the key
FileOf(key) == (CHOOSE f \in Range(files) : f.key = key).sql

DestructiveOps ==
    {"DROP TABLE", "DROP COLUMN", "DROP FUNCTION", "DROP TYPE", "DROP POLICY", "DROP TRIGGER",
     "DROP CONSTRAINT", "DROP INDEX", "DROP SEQUENCE"}

\* a line is a SQL comment when the text in front of its statement starts with "--"
IsSqlComment(line) == line.section \in {"-- [DRY-RUN] ", "-- ", "-- -- [DRY-RUN] "}

\* C12: with dryRun every DROP of a table, column, function, type, policy, trigger,
\* constraint, index or sequence stands behind the dry-run prefix, without dryRun it
\* stands uncommented; for target-to-source, stage 3-tables holds one DROP TABLE for each
\* table of tablesOnlyInTarget.
C12_DryRunPrefix ==
    RolledBack =>
        /\ \A line \in FileLines :
              line.op \in DestructiveOps =>
                  line.section = (IF opts.dryRun THEN "-- [DRY-RUN] " ELSE "")
        /\ opts.direction = "target-to-source" =>
              \A r \in DOMAIN diff.tablesOnlyInTarget :
                  Cardinality({i \in DOMAIN FileOf("3-tables") :
                                  /\ FileOf("3-tables")[i].op = "DROP TABLE"
                                  /\ FileOf("3-tables")[i].table = RefKey(diff.tablesOnlyInTarget[r])})
                  = 1

\* C12 witness: a dry-run rollback target-to-source that drops a table of the target,
\* behind the prefix
C12_Witness ==
    /\ RolledBack /\ opts.dryRun /\ opts.direction = "target-to-source"
    /\ Len(diff.tablesOnlyInTarget) > 0
    /\ \E line \in FileLines : line.op = "DROP TABLE" /\ line.section = "-- [DRY-RUN] "

\* C13: no executable DROP EXTENSION: with and without dryRun every DROP EXTENSION line
\* is a SQL comment.
C13_ExtensionsNeverDropped ==
    RolledBack => \A line \in FileLines : line.op = "DROP EXTENSION" => IsSqlComment(line)

\* C13 witness: a rollback without dry run of a snapshot that has an extension, whose
\* function drop is executable
C13_Witness ==
    /\ RolledBack /\ ~opts.dryRun
    /\ \E line \in FileLines : line.op = "DROP EXTENSION"
    /\ \E line \in FileLines : line.op = "DROP FUNCTION" /\ ~IsSqlComment(line)


----------------------------------------------------------------------------
(* Specification of the filter step: compare, then applyFilters *)

\* column x of table a: three variants that differ critically or not from one another
FilterColumnsX ==
    {<<>>} \cup {<<MkColumn("x", type, nullable, NullText, Null, Null, Null)>> :
                    type \in {"integer"}, nullable \in {"YES", "NO"}}
           \cup {<<MkColumn("x", "text", "YES", NullText, Null, Null, Null)>>}

FilterColumnsY == {<<>>, <<MkColumn("y", "integer", "YES", "0", Null, Null, Null)>>,
                   <<MkColumn("y", "integer", "YES", "1", Null, Null, Null)>>}

\* the index of table a, on column x when the table has it
FilterIndexes(x) == IF x = <<>> THEN {<<>>} ELSE {<<>>, <<MkIndex("n1", FALSE, FALSE, <<"x">>)>>}

\* table a in both snapshots, with or without an index on x; table b or c beside it
FilterSnapshots(other) ==
    UNION {{<<MkTable("a", x \o y, idxs, <<>>, <<>>)>> \o rest :
               y \in FilterColumnsY, idxs \in FilterIndexes(x),
               rest \in {<<>>, <<MkTable(other, <<>>, <<>>, <<>>, <<>>)>>}} :
           x \in FilterColumnsX}

FilterInit ==
    /\ pc = "start"
    /\ source \in FilterSnapshots("b")
    /\ target \in FilterSnapshots("c")
    /\ SortIdle /\ CompareIdle /\ GenerateIdle /\ ColumnIdle /\ ObjectsIdle

\* api.ts lines 329-337: diff = applyFilters(diff, filters); the variable diff keeps the
\* object passed in, as the call left it, and filtered holds the object returned
ApplyFilters ==
    /\ pc = "compared"
    /\ \E filters \in [onlyMissingTables : BOOLEAN, onlyColumnDiffs : BOOLEAN,
                       criticalOnly : BOOLEAN] :
          /\ opts' = filters
          /\ diff' = FilterStore(diff, filters, FilterRef).diff
          /\ filtered' = FilterStore(diff, filters, FilterRef)[FilterRef]
    /\ pc' = "filtered"
    /\ UNCHANGED <<source, target, tables, graph, sortResult, diffRev, files,
                   srcCol, tgtCol, colResult, objects, health, foundCycles>>

FilterNext == Compare \/ ApplyFilters

SpecFilter == FilterInit /\ [][FilterNext]_vars

Filtered == pc = "filtered"

CriticalAlone == opts.criticalOnly /\ ~opts.onlyMissingTables /\ ~opts.onlyColumnDiffs

\* the table of the diff list that carries the key of t, if any
Kept(list, t) == {f \in Range(list) : DiffKey(f) = DiffKey(t)}

CriticalEntries(t) == SelectSeq(t.columnsWithDifferences, LAMBDA col : col.isCritical)

\* the missing tables are unchanged, and every table kept has its missing columns and
\* exactly its critical column differences
CriticalOnlyKeeps ==
    /\ filtered.tablesOnlyInSource = diff.tablesOnlyInSource
    /\ filtered.tablesOnlyInTarget = diff.tablesOnlyInTarget
    /\ \A f \in Range(filtered.tablesInBoth) : Kept(diff.tablesInBoth, f) # {}
    /\ \A t \in Range(diff.tablesInBoth) :
          \A f \in Kept(filtered.tablesInBoth, t) :
              /\ f.columnsOnlyInSource = t.columnsOnlyInSource
              /\ f.columnsOnlyInTarget = t.columnsOnlyInTarget
              /\ f.columnsWithDifferences = CriticalEntries(t)

NoColumnDifferenceLeft(t) ==
    /\ Len(t.columnsOnlyInSource) = 0 /\ Len(t.columnsOnlyInTarget) = 0
    /\ Len(CriticalEntries(t)) = 0

NoOtherDifference(t) ==
    /\ Len(t.indexesOnlyInSource) = 0 /\ Len(t.indexesOnlyInTarget) = 0
    /\ Len(t.foreignKeysOnlyInSource) = 0 /\ Len(t.foreignKeysOnlyInTarget) = 0
    /\ Len(t.constraintsOnlyInSource) = 0 /\ Len(t.constraintsOnlyInTarget) = 0

\* C14 as stated: criticalOnly keeps the missing tables and columns, reduces the column
\* differences to the critical ones, and drops a table exactly when no difference of any
\* kind is left (missing column, critical column, index, foreign key, constraint).
C14_DropsWhenNothingLeft ==
    (Filtered /\ CriticalAlone) =>
        /\ CriticalOnlyKeeps
        /\ \A t \in Range(diff.tablesInBoth) :
              Kept(filtered.tablesInBoth, t) = {}
              <=> (NoColumnDifferenceLeft(t) /\ NoOtherDifference(t))

\* C14 amended: a table is dropped exactly when no missing column and no critical column
\* difference is left, whatever its index, foreign-key and constraint differences.
C14_DropsWhenNoColumnLeft ==
    (Filtered /\ CriticalAlone) =>
        /\ CriticalOnlyKeeps
        /\ \A t \in Range(diff.tablesInBoth) :
              Kept(filtered.tablesInBoth, t) = {} <=> NoColumnDifferenceLeft(t)

\* C14 witness: two missing tables, and table a with one critical and one non-critical
\* column difference, reduced to the critical one
C14_Witness ==
    /\ Filtered /\ CriticalAlone
    /\ Len(diff.tablesOnlyInSource) = 1 /\ Len(diff.tablesOnlyInTarget) = 1
    /\ Len(diff.tablesInBoth) = 1
    /\ Len(diff.tablesInBoth[1].columnsWithDifferences) = 2
    /\ Len(filtered.tablesInBoth) = 1
    /\ Len(filtered.tablesInBoth[1].columnsWithDifferences) = 1

\* C15: applyFilters leaves the SchemaDiff passed in, its three lists and every TableDiff
\* in it as they were, for every combination of the three flags.
C15_InputUnchanged == [][pc' = "filtered" => diff' = diff]_vars

\* C15 witness: a call with all three flags whose result differs from the diff passed in
C15_Witness ==
    /\ Filtered
    /\ opts.onlyMissingTables /\ opts.onlyColumnDiffs /\ opts.criticalOnly
    /\ diff = compareSchemas(source, target)
    /\ Len(diff.tablesInBoth) > 0 /\ Len(diff.tablesOnlyInSource) > 0
    /\ filtered # diff


----------------------------------------------------------------------------
(* The eight stages and their transaction wrapping *)

Dumped == pc = "dumped"

\* the keys of the returned object
FileKeys == {files[n].key : n \in DOMAIN files}

\* the eight stage keys of the claim
EightKeys ==
    {"1-extensions-enums", "2-sequences", "3-tables", "4-indexes",
     "5-constraints-foreign-keys", "6-functions", "7-triggers", "8-policies"}

\* a stage with nothing to emit: its text is a header and one comment
NothingToEmit(text) == Len(text) = 2 /\ text[1].op = "HEADER" /\ text[2].op = "COMMENT"

Unwrapped ==
    IF Generated
    THEN generateSplitMigrationSQL(diff, Metadata(source, objects.source),
             Metadata(target, objects.target), opts.direction, "none",
             opts.sortDependencies, opts.handleCircularDeps)
    ELSE generateFullDatabaseSQL(Metadata(source, objects.source), "none",
             opts.sortDependencies, opts.handleCircularDeps)

\* the eight stages concatenated in the order 1..8
RECURSIVE Concatenated(_)
Concatenated(n) == IF n = 0 THEN <<>> ELSE Concatenated(n - 1) \o Stage(n)

OpPositions(text, op) == {i \in DOMAIN text : text[i].op = op}

OneTransaction(text) ==
    /\ OpPositions(text, "BEGIN") = {1}
    /\ OpPositions(text, "COMMIT") = {Len(text)}

WrappedAs(plain) ==
    /\ opts.transactionScope = "none" => \A n \in 1..TotalFiles : Stage(n) = plain[n].sql
    /\ opts.transactionScope = "per-file" =>
          \A n \in 1..TotalFiles : Stage(n) = <<Begin>> \o plain[n].sql \o <<Commit>>
    /\ opts.transactionScope = "single" =>
          /\ Stage(1) = <<Begin>> \o plain[1].sql
          /\ Stage(TotalFiles) = plain[TotalFiles].sql \o <<Commit>>
          /\ \A n \in 2..(TotalFiles - 1) : Stage(n) = plain[n].sql
          /\ OneTransaction(Concatenated(TotalFiles))

----------------------------------------------------------------------------
(* The full dump as a split migration *)

\* the diff of the claim: every table of the snapshot only in source
SynthesizedDiff(tableList) ==
    [tablesOnlyInSource |-> [i \in DOMAIN tableList |->
                                [schema |-> tableList[i].table_schema,
                                 table |-> tableList[i].table_name]],
     tablesOnlyInTarget |-> <<>>, tablesInBoth |-> <<>>]

\* a snapshot with nothing in it
EmptyTarget == Metadata(<<>>, NoObjects)

WithoutHeader(text) == SelectSeq(text, LAMBDA line : line.op # "HEADER")

SameStages(full, split) ==
    /\ Len(full) = Len(split)
    /\ \A n \in DOMAIN full :
          /\ full[n].key = split[n].key
          /\ WithoutHeader(full[n].sql) = WithoutHeader(split[n].sql)

\* C19: apart from the header line, the full dump of a snapshot is the split migration in
\* direction source-to-target of the synthesized diff (every table only in source) against
\* an empty target snapshot, with the same transaction scope and sort flags.
C19_FullDumpIsSplit ==
    Dumped =>
        SameStages(files,
                   generateSplitMigrationSQL(SynthesizedDiff(source),
                       Metadata(source, objects.source), EmptyTarget, "source-to-target",
                       opts.transactionScope, opts.sortDependencies, opts.handleCircularDeps))

\* C19 witness: a dump in one transaction that creates a table, an index and a type
C19_Witness ==
    /\ Dumped /\ opts.transactionScope = "single"
    /\ \E i \in DOMAIN Stage(3) : Stage(3)[i].op = "CREATE TABLE"
    /\ \E i \in DOMAIN Stage(4) : Stage(4)[i].op = "CREATE INDEX"
    /\ \E i \in DOMAIN Stage(1) : Stage(1)[i].op = "CREATE TYPE"


----------------------------------------------------------------------------
(* The cycles reported by findStronglyConnectedComponents *)

CyclesFound == pc = "cycles"

MutuallyReachable(g, nodes) ==
    \A m \in nodes : \A n \in nodes : m # n => n \in ReachableFrom(g, m)

\* the node references itself and lies on no cycle through another node
SelfLoopOnly(g, n) ==
    /\ Edge(g, n, n)
    /\ \A m \in Range(g.keys) \ {n} : ~(m \in ReachableFrom(g, n) /\ n \in ReachableFrom(g, m))

\* C20: findStronglyConnectedComponents returns only genuine cycles: the nodes of every
\* returned list of size > 1 are mutually reachable, a node with a self-loop and no other
\* cycle is returned as a singleton list, and two nodes a -> b with no path back from b
\* to a are never returned in one component.
C20_OnlyGenuineCycles ==
    CyclesFound =>
        /\ \A i \in DOMAIN foundCycles :
              Len(foundCycles[i]) > 1 => MutuallyReachable(graph, Range(foundCycles[i]))
        /\ \A n \in Range(graph.keys) :
              SelfLoopOnly(graph, n) => \E i \in DOMAIN foundCycles : foundCycles[i] = <<n>>
        /\ \A a \in Range(graph.keys) : \A b \in Range(graph.keys) :
              (Edge(graph, a, b) /\ a \notin ReachableFrom(graph, b)) =>
                  \A i \in DOMAIN foundCycles : ~({a, b} \subseteq Range(foundCycles[i]))


----------------------------------------------------------------------------
(* Specification of the health score: compare, then calculateHealthMetrics *)

MaxMissingTables == 5

MaxColumnDiffs == 3

\* tables with the given prefix, numbered 1..n
NumberedTables(prefix, n) ==
    [i \in 1..n |-> MkTable(prefix \o ToString(i), <<>>, <<>>, <<>>, <<>>)]

\* columns with the given prefix, numbered 1..n
NumberedColumns(prefix, n, type, default) ==
    [i \in 1..n |-> MkColumn(prefix \o ToString(i), type, "YES", default, Null, Null, Null)]

\* the columns of a table on one side: the odd missing columns are in the source and the
\* even ones in the target, the columns c1.. differ by type, the columns n1.. by default
HealthColumns(side, missing, critical, nonCritical) ==
    SelectSeq(NumberedColumns("m", missing, "integer", NullText),
              LAMBDA c : \E i \in 1..missing :
                  /\ c.column_name = "m" \o ToString(i)
                  /\ (i % 2 = 1) <=> (side = "source"))
    \o NumberedColumns("c", critical, IF side = "source" THEN "integer" ELSE "text", NullText)
    \o NumberedColumns("n", nonCritical, "integer", IF side = "source" THEN "0" ELSE "1")

\* the tables both snapshots hold: a, and b with the same columns when asked for
HealthCommon(side, two, missing, critical, nonCritical) ==
    <<MkTable("a", HealthColumns(side, missing, critical, nonCritical), <<>>, <<>>, <<>>)>>
    \o (IF two THEN <<MkTable("b", HealthColumns(side, missing, critical, nonCritical),
                              <<>>, <<>>, <<>>)>>
        ELSE <<>>)

HealthInit ==
    /\ pc = "start"
    /\ \E two \in BOOLEAN, missing \in 0..MaxColumnDiffs, critical \in 0..MaxColumnDiffs,
          nonCritical \in 0..MaxColumnDiffs :
          /\ \E n \in 0..MaxMissingTables :
                source = HealthCommon("source", two, missing, critical, nonCritical)
                         \o NumberedTables("s", n)
          /\ \E n \in 0..MaxMissingTables :
                target = HealthCommon("target", two, missing, critical, nonCritical)
                         \o NumberedTables("t", n)
    /\ SortIdle /\ CompareIdle /\ GenerateIdle /\ ColumnIdle /\ ObjectsIdle

CalculateHealth ==
    /\ pc = "compared"
    /\ health' = calculateHealthMetrics(diff)
    /\ pc' = "health"
    /\ UNCHANGED <<source, target, tables, graph, sortResult, diff, diffRev, opts, files,
                   srcCol, tgtCol, colResult, objects, filtered, foundCycles>>

HealthNext == Compare \/ CalculateHealth

SpecHealth == HealthInit /\ [][HealthNext]_vars

Scored == pc = "health"

\* the column differences of the diff, as (table, column) positions
ColumnDiffs(d, critical) ==
    UNION {{<<i, j>> : j \in {k \in DOMAIN d.tablesInBoth[i].columnsWithDifferences :
                                d.tablesInBoth[i].columnsWithDifferences[k].isCritical = critical}} :
           i \in DOMAIN d.tablesInBoth}

\* the missing columns of the diff on one side, as (table, column) positions
MissingColumns(d, side) ==
    UNION {{<<i, j>> : j \in DOMAIN (IF side = "source" THEN d.tablesInBoth[i].columnsOnlyInSource
                                     ELSE d.tablesInBoth[i].columnsOnlyInTarget)} :
           i \in DOMAIN d.tablesInBoth}

\* 100 less the penalties of the claim
Penalised(d) ==
    100 - 10 * (Len(d.tablesOnlyInSource) + Len(d.tablesOnlyInTarget))
        - 8 * Cardinality(ColumnDiffs(d, TRUE))
        - 5 * (Cardinality(MissingColumns(d, "source")) + Cardinality(MissingColumns(d, "target")))
        - 3 * Cardinality(ColumnDiffs(d, FALSE))

\* C18: the score is max(0, 100 - 10 per missing table - 8 per critical column difference
\* - 5 per missing column - 3 per non-critical column difference), so it is within 0..100;
\* the severity is healthy from 90, minor from 70, moderate from 40, critical below.
C18_HealthScore ==
    Scored =>
        /\ health.score = (IF Penalised(diff) > 0 THEN Penalised(diff) ELSE 0)
        /\ health.score \in 0..100
        /\ health.severity = "healthy" <=> health.score >= 90
        /\ health.severity = "minor" <=> (health.score >= 70 /\ health.score < 90)
        /\ health.severity = "moderate" <=> (health.score >= 40 /\ health.score < 70)
        /\ health.severity = "critical" <=> health.score < 40

\* C18 witness: every kind of penalty applies, on two tables, and the floor is what keeps
\* the score at 0
C18_Witness ==
    /\ Scored
    /\ Len(diff.tablesOnlyInSource) > 0 /\ Len(diff.tablesOnlyInTarget) > 0
    /\ Len(diff.tablesInBoth) = 2
    /\ ColumnDiffs(diff, TRUE) # {} /\ ColumnDiffs(diff, FALSE) # {}
    /\ MissingColumns(diff, "source") # {} /\ MissingColumns(diff, "target") # {}
    /\ Penalised(diff) < 0 /\ health.score = 0 /\ health.severity = "critical"


----------------------------------------------------------------------------
(* The edges of the dependency graph *)

GraphBuilt == pc \in {"graph", "sorted", "cycles"}

WorkingSet == {RefKey(tables[i]) : i \in DOMAIN tables}

\* table T of the snapshot has a foreign key that references the table of key R
References(T, R) ==
    /\ HasTable(source, T)
    /\ \E i \in DOMAIN GetTable(source, T).foreignKeys :
          TableKey(GetTable(source, T).foreignKeys[i].foreign_table_schema,
                   GetTable(source, T).foreignKeys[i].foreign_table_name) = R

\* C21: the graph of buildDependencyGraph has an edge from T to R only if T has a foreign
\* key referencing R, R is in the working set and R is not T; a foreign key to a table
\* outside the working set and a self-referencing foreign key add no edge, and no error.
C21_EdgesWithinWorkingSet ==
    GraphBuilt =>
        /\ Len(graph.deps) = Len(graph.keys)
        /\ \A i \in DOMAIN graph.keys : \A R \in Range(graph.deps[i]) :
              /\ References(graph.keys[i], R)
              /\ R \in WorkingSet
              /\ R # graph.keys[i]

\* C21 witness: table a references itself and a table outside the working set, table c
\* references a, and the graph holds the edge c -> a only
C21_Witness ==
    /\ GraphBuilt
    /\ WorkingSet = {K("a"), K("c")}
    /\ References(K("a"), K("a")) /\ References(K("a"), K("b"))
    /\ Edge(graph, K("c"), K("a"))
    /\ GraphGet(graph, K("a")) = <<>>


----------------------------------------------------------------------------
(* The tables listed in tablesInBoth *)

\* the keys present in both snapshots
CommonKeys == {InfoKey(source[i]) : i \in DOMAIN source} \cap {InfoKey(target[i]) : i \in DOMAIN target}

\* the positions of tablesInBoth that carry the key
ListedAt(d, key) == {i \in DOMAIN d.tablesInBoth : DiffKey(d.tablesInBoth[i]) = key}

\* the number of entries of the nine difference lists of a TableDiff
DifferenceCount(td) ==
    Len(td.columnsOnlyInSource) + Len(td.columnsOnlyInTarget) + Len(td.columnsWithDifferences)
    + Len(td.indexesOnlyInSource) + Len(td.indexesOnlyInTarget)
    + Len(td.foreignKeysOnlyInSource) + Len(td.foreignKeysOnlyInTarget)
    + Len(td.constraintsOnlyInSource) + Len(td.constraintsOnlyInTarget)

\* C22: a table whose key is in both snapshots is listed in tablesInBoth, exactly once, if
\* and only if one of its difference lists is non-empty; a common table without a
\* difference is never listed, and nothing else is.
C22_ListedIffDifferent ==
    Compared =>
        /\ \A key \in CommonKeys :
              Cardinality(ListedAt(diff, key)) =
                  (IF DifferenceCount(CompareTable(GetTable(source, key), GetTable(target, key))) > 0
                   THEN 1 ELSE 0)
        /\ \A i \in DOMAIN diff.tablesInBoth :
              /\ DiffKey(diff.tablesInBoth[i]) \in CommonKeys
              /\ DifferenceCount(diff.tablesInBoth[i]) > 0

\* C22 witness: table a is listed for a foreign key of the target alone
C22_Witness ==
    /\ Compared
    /\ Len(diff.tablesInBoth) = 1
    /\ Len(diff.tablesInBoth[1].foreignKeysOnlyInTarget) = 1
    /\ DifferenceCount(diff.tablesInBoth[1]) = 1


----------------------------------------------------------------------------
(* topologicalSort as a total function *)

Sorted == pc \in {"sorted", "cycles"}

NoRepeat(seq) == \A i \in DOMAIN seq : \A j \in DOMAIN seq : seq[i] = seq[j] => i = j

\* C23: for every graph whose edges point to its own nodes, with no edge or with one cycle
\* through all nodes as well, topologicalSort returns: `sorted` holds no node twice,
\* `sorted` and `remaining` are disjoint and together the node set, and hasCycles is true
\* exactly when `remaining` is not empty.
C23_SortIsTotal ==
    Sorted =>
        /\ NoRepeat(sortResult.sorted)
        /\ Range(sortResult.sorted) \cap Range(sortResult.remaining) = {}
        /\ Range(sortResult.sorted) \cup Range(sortResult.remaining) = Range(graph.keys)
        /\ sortResult.hasCycles \in BOOLEAN
        /\ sortResult.hasCycles <=> sortResult.remaining # <<>>

\* C23 witness: one cycle through all three nodes, nothing sorted
C23_Witness ==
    /\ Sorted
    /\ Len(graph.keys) = 3
    /\ Edge(graph, K("a"), K("b")) /\ Edge(graph, K("b"), K("c")) /\ Edge(graph, K("c"), K("a"))
    /\ \A i \in DOMAIN graph.deps : Len(graph.deps[i]) = 1
    /\ sortResult.sorted = <<>> /\ Len(sortResult.remaining) = 3 /\ sortResult.hasCycles


----------------------------------------------------------------------------
(* Every new table is created once *)

SourceToTarget == Generated /\ opts.direction = "source-to-target"

\* the statements of stage n with the given op, in order
StatementsOf(n, op) == SelectSeq(Stage(n), LAMBDA st : st.op = op)

\* the tables named by the CREATE TABLE statements of stage 3, in order
CreatedTables == [i \in DOMAIN StatementsOf(3, "CREATE TABLE") |-> StatementsOf(3, "CREATE TABLE")[i].table]

\* the new tables the source snapshot holds
NewInSource == {k \in NewTables : HasTable(source, k)}

\* C24: for every combination of sortDependencies and handleCircularDeps, stage 3 in
\* direction source-to-target holds exactly one CREATE TABLE for each table of
\* tablesOnlyInSource found in the source snapshot; with handleCircularDeps off and cycles
\* present, the tables are created in the order `sorted`, then `remaining`.
C24_EveryTableCreatedOnce ==
    SourceToTarget =>
        /\ NoRepeat(CreatedTables)
        /\ Range(CreatedTables) = NewInSource
        /\ ( /\ opts.sortDependencies /\ ~opts.handleCircularDeps
             /\ topologicalSort(WorkingGraph).hasCycles )
           => CreatedTables = topologicalSort(WorkingGraph).sorted
                              \o topologicalSort(WorkingGraph).remaining

\* C24 witness: without the special handling, a sortable table is created first and two
\* tables that reference each other after it
C24_Witness ==
    /\ SourceToTarget /\ opts.sortDependencies /\ ~opts.handleCircularDeps
    /\ Len(topologicalSort(WorkingGraph).sorted) = 1
    /\ Len(topologicalSort(WorkingGraph).remaining) = 2
    /\ Len(CreatedTables) = 3


----------------------------------------------------------------------------
(* Specification of a migration and its rollback: one table that both        *)
(* snapshots hold with differences of every kind, or new tables with keys,   *)
(* indexes and constraints of every kind                                     *)

ColumnX == MkColumn("x", "integer", "NO", NullText, Null, Null, Null)

PrimaryKey(name) == MkIndex(name, TRUE, TRUE, <<"x">>)

CheckC(name) == MkCheck(name, <<"x", ">", "0">>)

\* the indexes and constraints of table a on one side: nothing, a plain index and a CHECK,
\* a UNIQUE constraint with or without its index of the same name, the unique index alone
ExistingIndexesConstraints(plain, unique, check) ==
    {[indexes |-> <<>>, constraints |-> <<>>],
     [indexes |-> <<MkIndex(plain, FALSE, FALSE, <<"x">>)>>, constraints |-> <<CheckC(check)>>],
     [indexes |-> <<MkIndex(unique, TRUE, FALSE, <<"x">>)>>,
      constraints |-> <<MkUnique(unique, <<"x">>)>>],
     [indexes |-> <<>>, constraints |-> <<MkUnique(unique, <<"x">>)>>],
     [indexes |-> <<MkIndex("shared", FALSE, FALSE, <<"x">>)>>, constraints |-> <<>>]}

\* table a as the source holds it: column y or not, a foreign key to b or not, a sequence,
\* a trigger and a policy named o1 or none
ExistingInSource ==
    {WithObjects(MkTable("a", <<ColumnX>> \o y, ic.indexes, fks, ic.constraints),
                 objs, objs, objs) :
        y \in {<<>>, <<MkColumn("y", "integer", "YES", NullText, Null, Null, Null)>>},
        ic \in ExistingIndexesConstraints("n1", "u1", "c1"),
        fks \in {<<>>, <<MkFK("a_fk1", "b")>>},
        objs \in {<<>>, <<"o1">>}}

\* table a as the target holds it: column z or not, and a foreign key, a sequence, a
\* trigger and a policy of its own or none of them
ExistingInTarget ==
    {WithObjects(MkTable("a", <<ColumnX>> \o z, ic.indexes, own.fks, ic.constraints),
                 own.objs, own.objs, own.objs) :
        z \in {<<>>, <<MkColumn("z", "integer", "YES", NullText, Null, Null, Null)>>},
        ic \in ExistingIndexesConstraints("n2", "u2", "c2"),
        own \in {[fks |-> <<>>, objs |-> <<>>], [fks |-> <<MkFK("a_fk2", "b")>>, objs |-> <<"o1">>]}}

\* table b as both snapshots hold it
ReferencedB == MkTable("b", <<ColumnX>>, <<PrimaryKey("b_pkey")>>, <<>>, <<>>)

\* a new table b: a primary key, a foreign key to c, to a or none, and a UNIQUE constraint
\* with or without its index of the same name, without columns, a CHECK or none
NewB ==
    {MkTable("b", <<ColumnX>>, <<PrimaryKey("b_pkey")>> \o ic.indexes, fks, ic.constraints) :
        fks \in {<<>>, <<MkFK("b_fk1", "c")>>, <<MkFK("b_fk1", "a")>>},
        ic \in {[indexes |-> <<>>, constraints |-> <<>>],
                [indexes |-> <<MkIndex("u1", TRUE, FALSE, <<"x">>)>>,
                 constraints |-> <<MkUnique("u1", <<"x">>)>>],
                [indexes |-> <<MkIndex("n1", TRUE, FALSE, <<"x">>)>>,
                 constraints |-> <<MkUnique("u1", <<"x">>)>>],
                [indexes |-> <<>>, constraints |-> <<MkUnique("u1", <<>>)>>],
                [indexes |-> <<>>, constraints |-> <<CheckC("c1")>>]}}

\* a new table c, or none: with or without a primary key and a foreign key to b
NewC ==
    {<<>>} \cup {<<MkTable("c", <<ColumnX>>, idxs, fks, <<>>)>> :
                    idxs \in {<<>>, <<PrimaryKey("c_pkey")>>},
                    fks \in {<<>>, <<MkFK("c_fk1", "b")>>}}

MigrateInit ==
    /\ pc = "start"
    /\ \/ \E s \in ExistingInSource, t \in ExistingInTarget :
             source = <<s, ReferencedB>> /\ target = <<t, ReferencedB>>
       \/ \E b \in NewB, c \in NewC :
             /\ source = <<MkTable("a", <<ColumnX>>, <<PrimaryKey("a_pkey")>>, <<>>, <<>>), b>> \o c
             /\ target = <<MkTable("a", <<ColumnX>>, <<PrimaryKey("a_pkey")>>, <<>>, <<>>)>>
    /\ SortIdle /\ CompareIdle /\ GenerateIdle /\ ColumnIdle /\ ObjectsIdle

MigrateNext == Compare \/ GenerateSplit \/ GenerateFull \/ GenerateRollback

SpecMigrate == MigrateInit /\ [][MigrateNext]_vars


----------------------------------------------------------------------------
(* Claims about the statements of a migration *)

\* the snapshot a migration in the chosen direction emits from
EmittingSide == IF opts.direction = "source-to-target" THEN source ELSE target

\* the keys of the tables the migration creates in the chosen direction
NewFor(direction) ==
    IF direction = "source-to-target"
    THEN {RefKey(diff.tablesOnlyInSource[i]) : i \in DOMAIN diff.tablesOnlyInSource}
    ELSE {RefKey(diff.tablesOnlyInTarget[i]) : i \in DOMAIN diff.tablesOnlyInTarget}

\* the constraints stage 5 is to add, each with the key of its table
ConstraintsToAdd ==
    UNION {{<<k, c>> : c \in Range(GetTable(EmittingSide, k).constraints)} :
           k \in {n \in NewFor(opts.direction) : HasTable(EmittingSide, n)}}
    \cup UNION {{<<DiffKey(td), c>> :
                    c \in Range(IF opts.direction = "source-to-target"
                                THEN td.constraintsOnlyInSource ELSE td.constraintsOnlyInTarget)} :
                td \in Range(diff.tablesInBoth)}

\* stage n holds a statement with the op for the named object of the table
Emits(n, op, tableKey, name) ==
    \E i \in DOMAIN Stage(n) :
        Stage(n)[i].op = op /\ Stage(n)[i].table = tableKey /\ Stage(n)[i].name = name

HasUniqueIndexNamed(tableKey, name) ==
    /\ HasTable(EmittingSide, tableKey)
    /\ \E idx \in Range(GetTable(EmittingSide, tableKey).indexes) :
          idx.is_unique /\ idx.index_name = name

----------------------------------------------------------------------------
(* The foreign keys of new tables over the eight stages *)

\* the snapshot whose tables the call creates, and the keys of the tables it creates
CreatingSide == IF Dumped THEN source ELSE EmittingSide

CreatedKeys ==
    IF Dumped THEN {InfoKey(source[i]) : i \in DOMAIN source}
    ELSE {k \in NewFor(opts.direction) : HasTable(EmittingSide, k)}

\* the positions <<stage, line>> of the statements that add the named foreign key
ForeignKeyAdds(tableKey, name) ==
    UNION {{<<n, i>> : i \in {j \in DOMAIN Stage(n) :
                                 /\ Stage(n)[j].op = "ADD FOREIGN KEY"
                                 /\ Stage(n)[j].table = tableKey
                                 /\ Stage(n)[j].name = name}} :
           n \in 1..TotalFiles}

\* C26: over the eight stages of one split migration or full dump, every foreign key of
\* every new table is added by exactly one ADD CONSTRAINT ... FOREIGN KEY statement, for
\* every combination of sortDependencies and handleCircularDeps, also when the table is
\* part of a circular dependency.
C26_ForeignKeyAddedOnce ==
    (Generated \/ Dumped) =>
        \A k \in CreatedKeys :
            \A fk \in Range(GetTable(CreatingSide, k).foreignKeys) :
                Cardinality(ForeignKeyAdds(k, fk.constraint_name)) = 1


----------------------------------------------------------------------------
(* The order of execution over the eight stages *)

\* position <<m, i>> is executed before position <<n, j>>
ExecutedBefore(p, q) == p[1] < q[1] \/ (p[1] = q[1] /\ p[2] < q[2])

\* the positions of the statements with the op on the table
StatementsOn(op, tableKey) ==
    UNION {{<<n, i>> : i \in {j \in DOMAIN Stage(n) :
                                 Stage(n)[j].op = op /\ Stage(n)[j].table = tableKey}} :
           n \in 1..TotalFiles}

\* the positions of the ADD CONSTRAINT ... FOREIGN KEY statements of the new tables
NewForeignKeyAdds ==
    UNION {{<<n, i>> : i \in {j \in DOMAIN Stage(n) :
                                 /\ Stage(n)[j].op = "ADD FOREIGN KEY"
                                 /\ Stage(n)[j].table \in CreatedKeys}} :
           n \in 1..TotalFiles}

\* the positions of the statements that create the primary key or a unique index of the table
KeyCreations(tableKey) ==
    StatementsOn("ADD PRIMARY KEY", tableKey) \cup StatementsOn("CREATE UNIQUE INDEX", tableKey)

ReferencedTable(p) == Stage(p[1])[p[2]].ref

\* C27: with the stages executed in the order 1..8, every ADD CONSTRAINT ... FOREIGN KEY
\* of a new table comes after the CREATE TABLE of the referencing table, after the CREATE
\* TABLE of the referenced table when that table is new too, and after the statement of
\* stage 4 that creates the primary key or unique index of the referenced table.
C27_ForeignKeyAfterItsTables ==
    (Generated \/ Dumped) =>
        \A p \in NewForeignKeyAdds :
            /\ \E c \in StatementsOn("CREATE TABLE", Stage(p[1])[p[2]].table) :
                  ExecutedBefore(c, p)
            /\ ReferencedTable(p) \in CreatedKeys =>
                  /\ \E c \in StatementsOn("CREATE TABLE", ReferencedTable(p)) :
                        ExecutedBefore(c, p)
                  /\ \A x \in KeyCreations(ReferencedTable(p)) : ExecutedBefore(x, p)


----------------------------------------------------------------------------
(* The rollback against the forward migration of the same direction *)

\* the forward migration of the direction the rollback was asked for
Forward ==
    generateSplitMigrationSQL(diff, Metadata(source, objects.source),
        Metadata(target, objects.target), opts.direction, "none", TRUE, TRUE)

\* the names of the objects of the table that the text handles with the op
NamesOf(text, op, tableKey) ==
    {text[i].name : i \in {j \in DOMAIN text : text[j].op = op /\ text[j].table = tableKey}}

ColumnNames(columns) == {columns[i].column_name : i \in DOMAIN columns}

SameColumnsBack(forward) ==
    \A td \in Range(diff.tablesInBoth) :
        /\ NamesOf(FileOf("3-tables"), "DROP COLUMN", DiffKey(td))
              = NamesOf(forward[3].sql, "ADD COLUMN", DiffKey(td))
        /\ NamesOf(forward[3].sql, "ADD COLUMN", DiffKey(td))
              = ColumnNames(IF opts.direction = "source-to-target" THEN td.columnsOnlyInSource
                            ELSE td.columnsOnlyInTarget)

\* C28: for each direction and each table of tablesInBoth, the columns for which the
\* rollback emits DROP COLUMN are the columns for which the split migration of that
\* direction emits ADD COLUMN: columnsOnlyInSource for source-to-target,
\* columnsOnlyInTarget for target-to-source.
C28_RollbackInvertsColumns == RolledBack => SameColumnsBack(Forward)


----------------------------------------------------------------------------
(* What the rollback drops on tables that both snapshots hold *)

RolledBackSourceToTarget == RolledBack /\ opts.direction = "source-to-target"

NamesIn(list, Name(_)) == {Name(list[i]) : i \in DOMAIN list}

IndexName(idx) == idx.index_name

ConstraintName(c) == c.constraint_name

\* C29: the rollback of direction source-to-target drops, on tables present in both
\* snapshots, only what the forward migration adds: every DROP INDEX names an index of
\* indexesOnlyInSource, every DROP CONSTRAINT a foreign key of foreignKeysOnlyInSource or
\* a constraint of constraintsOnlyInSource, and no index, constraint, trigger, policy or
\* sequence that the target snapshot holds already is dropped.
C29_RollbackDropsOnlyAdded ==
    RolledBackSourceToTarget =>
        \A td \in Range(diff.tablesInBoth) :
            /\ NamesOf(FileOf("4-indexes"), "DROP INDEX", DiffKey(td))
                  \subseteq NamesIn(td.indexesOnlyInSource, IndexName)
            /\ NamesOf(FileOf("5-constraints-foreign-keys"), "DROP CONSTRAINT", DiffKey(td))
                  \subseteq (NamesIn(td.foreignKeysOnlyInSource, ConstraintName)
                             \cup NamesIn(td.constraintsOnlyInSource, ConstraintName))
            /\ NamesOf(FileOf("4-indexes"), "DROP INDEX", DiffKey(td))
                  \cap NamesIn(GetTable(target, DiffKey(td)).indexes, IndexName) = {}
            /\ NamesOf(FileOf("5-constraints-foreign-keys"), "DROP CONSTRAINT", DiffKey(td))
                  \cap (NamesIn(GetTable(target, DiffKey(td)).foreignKeys, ConstraintName)
                        \cup NamesIn(GetTable(target, DiffKey(td)).constraints, ConstraintName))
                  = {}
            /\ NamesOf(FileOf("7-triggers"), "DROP TRIGGER", DiffKey(td))
                  \cap Range(GetTable(target, DiffKey(td)).triggers) = {}
            /\ NamesOf(FileOf("8-policies"), "DROP POLICY", DiffKey(td))
                  \cap Range(GetTable(target, DiffKey(td)).policies) = {}
            /\ NamesOf(FileOf("2-sequences"), "DROP SEQUENCE", DiffKey(td))
                  \cap Range(GetTable(target, DiffKey(td)).sequences) = {}


----------------------------------------------------------------------------
(* What each stage adds to tables that both snapshots hold *)

IndexCreations(text, tableKey) ==
    NamesOf(text, "CREATE INDEX", tableKey) \cup NamesOf(text, "CREATE UNIQUE INDEX", tableKey)
        \cup NamesOf(text, "ADD PRIMARY KEY", tableKey)

ConstraintAdds(text, tableKey) ==
    NamesOf(text, "ADD UNIQUE", tableKey) \cup NamesOf(text, "ADD CHECK", tableKey)

\* the list of the table's difference that the direction selects
OnlyIn(td, inSource, inTarget) ==
    IF opts.direction = "source-to-target" THEN td[inSource] ELSE td[inTarget]

\* C30: for every table present in both snapshots the stages follow the direction alike:
\* stage 3 adds the columns, stage 4 creates the indexes and stage 5 adds the foreign keys
\* and the constraints of the only-in-source lists in direction source-to-target and of
\* the only-in-target lists in direction target-to-source.
C30_StagesFollowDirection ==
    Generated =>
        \A td \in Range(diff.tablesInBoth) :
            /\ NamesOf(Stage(3), "ADD COLUMN", DiffKey(td))
                  = ColumnNames(OnlyIn(td, "columnsOnlyInSource", "columnsOnlyInTarget"))
            /\ IndexCreations(Stage(4), DiffKey(td))
                  = NamesIn(OnlyIn(td, "indexesOnlyInSource", "indexesOnlyInTarget"), IndexName)
            /\ NamesOf(Stage(5), "ADD FOREIGN KEY", DiffKey(td))
                  = NamesIn(OnlyIn(td, "foreignKeysOnlyInSource", "foreignKeysOnlyInTarget"),
                            ConstraintName)
            /\ ConstraintAdds(Stage(5), DiffKey(td))
                  \subseteq NamesIn(OnlyIn(td, "constraintsOnlyInSource", "constraintsOnlyInTarget"),
                                    ConstraintName)

====
